---- MODULE Spec2Model ----
(***************************************************************************)
(* Verification model of outlet-orm: the entity lifecycle of Model         *)
(* (save / destroy / hydration / toJSON) on top of DatabaseConnection,     *)
(* the atomic increment / decrement statements, and the MigrationManager.  *)
(***************************************************************************)
EXTENDS Integers, Sequences, FiniteSets, TLC

VARIABLES
  driver,       \* DatabaseConnection.driver
  primaryKey,   \* static primaryKey of the model class bound to the table
  rows,         \* content of the model's table: a set of rows (column -> value)
  lastId,       \* auto-increment counter of the table's key column
  ents,         \* the Model instances the program holds
  last,         \* the save() / destroy() call that ran last: entity, result, statements
  procs,        \* in-flight increment / decrement calls
  initRows,     \* table content when the concurrent calls started
  files,        \* the .js files of the migrations directory
  migrations,   \* the tracking table, in insertion order
  nextMigId,    \* auto-increment id of the tracking table
  applied,      \* units whose up() took effect and was not undone
  mig,          \* the MigrationManager operation in progress
  inv,          \* record of the current (or last) MigrationManager invocation
  prevInv,      \* record of the invocation before it
  tables,       \* content of the related tables: table name -> rows in insertion order
  models,       \* the batch of Model instances a relation is loaded on
  queries,      \* the statements the last operation handed to the connection
  builders,     \* the QueryBuilder instances the program holds
  heap,         \* the arrays the QueryBuilder instances refer to, by address
  returned      \* value returned by the last terminal operation

vars == <<driver, primaryKey, rows, lastId, ents, last, procs, initRows,
          files, migrations, nextMigId, applied, mig, inv, prevInv,
          tables, models, queries, builders, heap, returned>>

modelVars == <<driver, primaryKey, rows, lastId, ents, last>>
procVars  == <<procs, initRows>>
migVars   == <<files, migrations, nextMigId, applied, mig, inv, prevInv>>
extVars   == <<tables, models, queries, builders, heap, returned>>
coreVars  == <<modelVars, procVars, migVars>>

(***************************************************************************)
(* Values                                                                  *)
(***************************************************************************)
Undefined == -1
Null == -2

MaxId == 2

Drivers == {"mysql", "postgres", "sqlite"}
PrimaryKeys == {"id", "uid"}
NameVals == {11, 12}
PasswordVal == 7
Ents == {"e1"}
NoEnt == [born |-> FALSE]

\* the model class sets static timestamps = false
timestamps == FALSE
\* the value new Date() returns
clock == 0
fillable == {}
hidden == {"password", "profile"}
RelationNames == {"posts", "profile"}
RelVals == {Null, 1}

EmptyFn == [k \in {} |-> 0]

\* obj[key] of a JavaScript object: undefined when the key is absent
Prop(obj, key) == IF key \in DOMAIN obj THEN obj[key] ELSE Undefined

\* { ...obj, [key]: value }
Assign(obj, key, value) ==
  [k \in DOMAIN obj \cup {key} |-> IF k = key THEN value ELSE obj[k]]

\* Object.assign({...a}, b)
Merge(a, b) ==
  [k \in DOMAIN a \cup DOMAIN b |-> IF k \in DOMAIN b THEN b[k] ELSE a[k]]

TableCols ==
  {primaryKey, "name", "password"} \cup
  (IF timestamps THEN {"created_at", "updated_at"} ELSE {})

(***************************************************************************)
(* DatabaseConnection                                                      *)
(***************************************************************************)
\* query.wheres || []
Wheres(query) == IF "wheres" \in DOMAIN query THEN query.wheres ELSE <<>>

\* buildWhereClause: the predicate the WHERE clause denotes on one row;
\* an empty list gives no WHERE clause, which every row satisfies
MatchesWhere(row, wheres) ==
  \A i \in 1..Len(wheres) :
    /\ wheres[i].type = "basic"
    /\ wheres[i].operator = "="
    /\ Prop(row, wheres[i].column) = wheres[i].value

\* the statement text handed to the driver, reduced to its kind and its
\* number of WHERE predicates
Stmt(kind, query) == [kind |-> kind, nwheres |-> Len(Wheres(query))]

\* UPDATE table SET k = ? ... <whereClause>
DbUpdate(table, data, query) ==
  { IF MatchesWhere(r, Wheres(query)) THEN Merge(r, data) ELSE r : r \in table }

\* DELETE FROM table <whereClause>
DbDelete(table, query) ==
  { r \in table : ~MatchesWhere(r, Wheres(query)) }

\* the row INSERT INTO table (cols) VALUES (...) stores: absent columns are
\* NULL, an absent or NULL key column takes the next auto-increment value
InsertedRow(data) ==
  [c \in TableCols |->
     IF c \in DOMAIN data /\ ~(c = primaryKey /\ data[c] \in {Undefined, Null})
       THEN data[c]
       ELSE IF c = primaryKey THEN lastId + 1 ELSE Null]

\* the driver rejects the INSERT: duplicate key, or an undefined / null
\* bound to the key column on mysql2 and pg
InsertFails(data) ==
  /\ primaryKey \in DOMAIN data
  /\ \/ data[primaryKey] \in {Undefined, Null} /\ driver # "sqlite"
     \/ \E r \in rows : r[primaryKey] = data[primaryKey]

\* insertId reported by insert(): result.insertId (mysql), this.lastID
\* (sqlite), pgResult.rows[0].id (postgres)
InsertId(row) ==
  IF driver = "postgres" THEN Prop(row, "id") ELSE row[primaryKey]

(***************************************************************************)
(* Model                                                                   *)
(***************************************************************************)
\* static casts = {} : no cast is registered, the value is returned as is
castAttribute(key, value) == value

setAttribute(attributes, key, value) ==
  Assign(attributes, key, castAttribute(key, value))

fill(attributes, input) ==
  [k \in DOMAIN attributes \cup
         {c \in DOMAIN input : fillable = {} \/ c \in fillable} |->
     IF k \in DOMAIN input /\ (fillable = {} \/ k \in fillable)
       THEN castAttribute(k, input[k]) ELSE attributes[k]]

getAttribute(e, key) ==
  IF key \in DOMAIN e.relations /\ e.relations[key] # Null
    THEN e.relations[key]
    ELSE castAttribute(key, Prop(e.attributes, key))

\* the number NaN
NaN == -3

\* the object literals a program assigns to an attribute, by reference: their
\* properties in insertion order ({a: 1, b: 2}, {b: 2, a: 1},
\* {a: 1, b: undefined}, {a: 1})
Objects ==
  (100 :> << <<"a", 1>>, <<"b", 2>> >>) @@
  (101 :> << <<"b", 2>>, <<"a", 1>> >>) @@
  (102 :> << <<"a", 1>>, <<"b", Undefined>> >>) @@
  (103 :> << <<"a", 1>> >>)

RECURSIVE stringifyProps(_, _)
\* the serialized properties of an object: a property whose value is
\* undefined is left out, the others are "key":value, separated by commas and
\* in insertion order
stringifyProps(props, first) ==
  IF Len(props) = 0 THEN ""
  ELSE IF Head(props)[2] = Undefined THEN stringifyProps(Tail(props), first)
  ELSE (IF first THEN "" ELSE ",") \o "\"" \o Head(props)[1] \o "\":" \o
       (IF Head(props)[2] \in {Null, NaN} THEN "null"
        ELSE ToString(Head(props)[2])) \o
       stringifyProps(Tail(props), FALSE)

\* JSON.stringify(value): undefined for undefined, else the JSON text, in
\* which NaN is written null
stringify(value) ==
  IF value = Undefined THEN [defined |-> FALSE, text |-> ""]
  ELSE [defined |-> TRUE,
        text |-> IF value \in {Null, NaN} THEN "null"
                 ELSE IF value \in DOMAIN Objects
                   THEN "{" \o stringifyProps(Objects[value], TRUE) \o "}"
                   ELSE ToString(value)]

getDirty(e) ==
  LET keys == {k \in DOMAIN e.attributes :
                 stringify(e.attributes[k]) # stringify(Prop(e.original, k))}
  IN [k \in keys |-> e.attributes[k]]

isDirty(e) == DOMAIN getDirty(e) # {}

toJSON(e) ==
  LET json == IF ~e.showHidden
                THEN [k \in DOMAIN e.attributes \ hidden |-> e.attributes[k]]
                ELSE e.attributes
  IN Merge(json, e.relations)

NewModel(input) ==
  [born |-> TRUE, attributes |-> fill(EmptyFn, input), original |-> EmptyFn,
   relations |-> EmptyFn, exists |-> FALSE, showHidden |-> FALSE]


Max(a, b) == IF a >= b THEN a ELSE b

Range(seq) == {seq[i] : i \in 1..Len(seq)}

\* connection.insert(table, data) as performInsert uses it: the statement,
\* the stored row (when the driver accepts it) and the reported insertId
performInsert(e) ==
  LET a1 == IF timestamps
              THEN setAttribute(setAttribute(e.attributes, "created_at", clock),
                                "updated_at", clock)
              ELSE e.attributes
      row == InsertedRow(a1)
      a2 == setAttribute(a1, primaryKey, InsertId(row))
  IN IF InsertFails(a1)
       THEN [ent |-> [e EXCEPT !.attributes = a1], rows |-> rows,
             lastId |-> lastId, ret |-> "throw",
             stmts |-> <<[kind |-> "INSERT", nwheres |-> 0]>>]
       ELSE [ent |-> [e EXCEPT !.attributes = a2, !.exists = TRUE,
                               !.original = a2],
             rows |-> rows \cup {row},
             lastId |-> Max(lastId, row[primaryKey]), ret |-> "this",
             stmts |-> <<[kind |-> "INSERT", nwheres |-> 0]>>]

performUpdate(e) ==
  LET a1 == IF timestamps
              THEN setAttribute(e.attributes, "updated_at", clock)
              ELSE e.attributes
      e1 == [e EXCEPT !.attributes = a1]
      dirty == getDirty(e1)
      query == (primaryKey :> getAttribute(e1, primaryKey))
  IN IF DOMAIN dirty = {}
       THEN [ent |-> e1, rows |-> rows, lastId |-> lastId, ret |-> "this",
             stmts |-> <<>>]
       ELSE [ent |-> [e1 EXCEPT !.original = a1],
             rows |-> DbUpdate(rows, dirty, query),
             lastId |-> lastId, ret |-> "this",
             stmts |-> <<Stmt("UPDATE", query)>>]

save(e) == IF e.exists THEN performUpdate(e) ELSE performInsert(e)

destroy(e) ==
  LET query == (primaryKey :> getAttribute(e, primaryKey))
  IN IF ~e.exists
       THEN [ent |-> e, rows |-> rows, ret |-> "false", stmts |-> <<>>]
       ELSE [ent |-> [e EXCEPT !.exists = FALSE],
             rows |-> DbDelete(rows, query), ret |-> "true",
             stmts |-> <<Stmt("DELETE", query)>>]

\* a performInsert that sets exists before it awaits connection.insert
performInsertRejectedExists(e) ==
  LET a1 == IF timestamps
              THEN setAttribute(setAttribute(e.attributes, "created_at", clock),
                                "updated_at", clock)
              ELSE e.attributes
  IN [ent |-> [e EXCEPT !.attributes = a1, !.exists = TRUE], rows |-> rows,
      lastId |-> lastId, ret |-> "throw",
      stmts |-> <<[kind |-> "INSERT", nwheres |-> 0]>>]

\* performInsert whose connection.insert rejects for a reason of the driver
\* (connection lost, constraint, timeout): the lines after the await are not
\* reached
performInsertRejected(e) ==
  LET a1 == IF timestamps
              THEN setAttribute(setAttribute(e.attributes, "created_at", clock),
                                "updated_at", clock)
              ELSE e.attributes
  IN [ent |-> [e EXCEPT !.attributes = a1], rows |-> rows, lastId |-> lastId,
      ret |-> "throw", stmts |-> <<[kind |-> "INSERT", nwheres |-> 0]>>]

\* performUpdate whose connection.update rejects: original stays as it was
performUpdateRejected(e) ==
  LET a1 == IF timestamps
              THEN setAttribute(e.attributes, "updated_at", clock)
              ELSE e.attributes
      e1 == [e EXCEPT !.attributes = a1]
      query == (primaryKey :> getAttribute(e1, primaryKey))
  IN [ent |-> e1, rows |-> rows, lastId |-> lastId, ret |-> "throw",
      stmts |-> <<Stmt("UPDATE", query)>>]

\* destroy whose connection.delete rejects: exists = false is not reached
destroyRejected(e) ==
  LET query == (primaryKey :> getAttribute(e, primaryKey))
  IN [ent |-> e, rows |-> rows, ret |-> "throw",
      stmts |-> <<Stmt("DELETE", query)>>]

(***************************************************************************)
(* QueryBuilder                                                            *)
(***************************************************************************)
\* where(column, value): one 'basic' predicate with operator '='
where(column, value) ==
  [column |-> column, operator |-> "=", value |-> value, type |-> "basic",
   boolean |-> "and"]

buildQuery(selectedColumns, wheres, limitValue) ==
  [columns |-> selectedColumns, wheres |-> wheres, limit |-> limitValue]

\* buildSelectQuery: the rows SELECT <columns> FROM table <whereClause> yields
DbSelect(table, query) ==
  LET cols == IF Len(query.columns) > 0 /\ "*" \notin Range(query.columns)
                THEN Range(query.columns) ELSE TableCols
  IN { [c \in cols \cap DOMAIN r |-> r[c]] :
         r \in {x \in table : MatchesWhere(x, Wheres(query))} }

hydrate(row, showHidden) ==
  [born |-> TRUE, attributes |-> row, original |-> row, relations |-> EmptyFn,
   exists |-> TRUE, showHidden |-> showHidden]

(***************************************************************************)
(* Entity lifecycle: the operations of the public API                      *)
(***************************************************************************)
FillInputs == { [name |-> n, password |-> PasswordVal] : n \in NameVals }
ColumnLists == { <<"*">>, <<"name">>, <<primaryKey, "name", "password">> }
WhereLists == { <<>> } \cup { <<where(primaryKey, k)>> : k \in 1..MaxId }

\* value of last after a handler other than save() and destroy()
NoOp == [op |-> "none", ent |-> "none", ret |-> "none", stmts |-> <<>>]

\* new Model(attributes)
Construct(e) ==
  \E input \in FillInputs :
    /\ ents' = [ents EXCEPT ![e] = NewModel(input)]
    /\ last' = NoOp
    /\ UNCHANGED <<driver, primaryKey, rows, lastId>>

\* model.setAttribute('name', v)
SetAttribute(e) ==
  \E v \in NameVals :
    /\ ents[e].born
    /\ ents' = [ents EXCEPT ![e].attributes = setAttribute(@, "name", v)]
    /\ last' = NoOp
    /\ UNCHANGED <<driver, primaryKey, rows, lastId>>

\* model.save()
Save(e) ==
  /\ ents[e].born
  /\ ents[e].exists \/ lastId < MaxId
  /\ LET r == save(ents[e])
     IN /\ ents' = [ents EXCEPT ![e] = r.ent]
        /\ rows' = r.rows
        /\ lastId' = r.lastId
        /\ last' = [op |-> IF ents[e].exists THEN "performUpdate"
                                             ELSE "performInsert",
                    ent |-> e, ret |-> r.ret, stmts |-> r.stmts]
  /\ UNCHANGED <<driver, primaryKey>>

\* model.destroy()
Destroy(e) ==
  /\ ents[e].born
  /\ LET r == destroy(ents[e])
     IN /\ ents' = [ents EXCEPT ![e] = r.ent]
        /\ rows' = r.rows
        /\ last' = [op |-> "destroy", ent |-> e, ret |-> r.ret, stmts |-> r.stmts]
  /\ UNCHANGED <<driver, primaryKey, lastId>>

\* Model.query() / withHidden() / withoutHidden(show), select(cols),
\* where(pk, k), get(): the program keeps one of the hydrated instances
Get(e) ==
  \E cols \in ColumnLists, ws \in WhereLists, show \in BOOLEAN :
    LET result == DbSelect(rows, buildQuery(cols, ws, Null))
    IN /\ result # {}
       /\ \E row \in result :
            ents' = [ents EXCEPT ![e] = hydrate(row, show)]
       /\ last' = NoOp
       /\ UNCHANGED <<driver, primaryKey, rows, lastId>>

\* ... first(): limit(1), then results[0] || null; without ORDER BY the
\* row the database returns first is any matching row
First(e) ==
  \E cols \in ColumnLists, ws \in WhereLists, show \in BOOLEAN :
    LET result == DbSelect(rows, buildQuery(cols, ws, 1))
    IN /\ IF result = {}
            THEN ents' = [ents EXCEPT ![e] = NoEnt]
            ELSE \E row \in result :
                   ents' = [ents EXCEPT ![e] = hydrate(row, show)]
       /\ last' = NoOp
       /\ UNCHANGED <<driver, primaryKey, rows, lastId>>

\* model.load(rel): relations[rel] = await relation.get()
Load(e) ==
  \E rel \in RelationNames, value \in RelVals :
    /\ ents[e].born
    /\ ents' = [ents EXCEPT ![e].relations = Assign(@, rel, value)]
    /\ last' = NoOp
    /\ UNCHANGED <<driver, primaryKey, rows, lastId>>

\* Model.where(pk, k).update({name: v})
QBUpdate ==
  \E k \in 1..MaxId, v \in NameVals :
    LET attributes == IF timestamps
                        THEN [name |-> v, updated_at |-> clock]
                        ELSE [name |-> v]
        query == buildQuery(<<"*">>, <<where(primaryKey, k)>>, Null)
    IN /\ rows' = DbUpdate(rows, attributes, query)
       /\ last' = NoOp
       /\ UNCHANGED <<driver, primaryKey, lastId, ents>>

\* Model.where(pk, k).delete()
QBDelete ==
  \E k \in 1..MaxId :
    LET query == buildQuery(<<"*">>, <<where(primaryKey, k)>>, Null)
    IN /\ rows' = DbDelete(rows, query)
       /\ last' = NoOp
       /\ UNCHANGED <<driver, primaryKey, lastId, ents>>

InitProcsIdle ==
  /\ procs = EmptyFn
  /\ initRows = {}

Idle == [pc |-> "idle", todo |-> <<>>, batch |-> 0]

NoInv ==
  [op |-> "none", steps |-> 0, status |-> "none", calls |-> <<>>,
   before |-> <<>>, appliedBefore |-> {}, filesRead |-> {}, todo |-> <<>>,
   failedAt |-> "none", failedUnit |-> 0]

InitMigIdle ==
  /\ files = {}
  /\ migrations = <<>>
  /\ nextMigId = 1
  /\ applied = {}
  /\ mig = Idle
  /\ inv = NoInv
  /\ prevInv = NoInv

\* no terminal operation has returned yet
NoReturn == [op |-> "none"]

InitExtIdle ==
  /\ tables = EmptyFn
  /\ models = <<>>
  /\ queries = <<>>
  /\ builders = EmptyFn
  /\ heap = EmptyFn
  /\ returned = NoReturn

InitModel ==
  /\ driver \in Drivers
  /\ primaryKey \in PrimaryKeys
  /\ rows = {}
  /\ lastId = 0
  /\ ents = [e \in Ents |-> NoEnt]
  /\ last = NoOp
  /\ InitProcsIdle
  /\ InitMigIdle
  /\ InitExtIdle

NextModel ==
  /\ \/ \E e \in Ents : Construct(e)
     \/ \E e \in Ents : SetAttribute(e)
     \/ \E e \in Ents : Save(e)
     \/ \E e \in Ents : Destroy(e)
     \/ \E e \in Ents : Get(e)
     \/ \E e \in Ents : First(e)
     \/ \E e \in Ents : Load(e)
     \/ QBUpdate
     \/ QBDelete
  /\ UNCHANGED <<procVars, migVars, extVars>>

SpecModel == InitModel /\ [][NextModel]_vars


(***************************************************************************)
(* Properties of the entity lifecycle                                      *)
(***************************************************************************)
\* the key save() and destroy() put in their WHERE object
KeyOf(e) == getAttribute(e, primaryKey)

\* C1: save() on an entity with exists = true changes only the table row
\* whose primary key equals the entity's primary key; every other row holds
\* after the call exactly the values it held before.
C1_UpdateLeavesOtherRows ==
  [][last'.op = "performUpdate" =>
       \A r \in rows :
         r[primaryKey] # KeyOf(ents[last'.ent]) => r \in rows']_vars

\* C2: destroy() on an entity with exists = false issues no statement and
\* returns false; on an entity with exists = true it deletes exactly the row
\* whose primary key equals the entity's, leaves every other row in place,
\* sets exists to false and returns true.
C2_DestroyDeletesOwnRowOnly ==
  [][last'.op = "destroy" =>
       LET e == ents[last'.ent]
       IN IF ~e.exists
            THEN /\ last'.stmts = <<>>
                 /\ last'.ret = "false"
                 /\ rows' = rows
            ELSE /\ rows' = {r \in rows : r[primaryKey] # KeyOf(e)}
                 /\ ~ents'[last'.ent].exists
                 /\ last'.ret = "true"]_vars

\* C9: in every state reachable through construction, fill, save, destroy
\* and hydration (any selected columns, any primaryKey, any dialect) an entity
\* with exists = true has attributes[primaryKey] set to a defined, non-null
\* value.
C9_ExistsImpliesKeySet ==
  \A e \in Ents :
    (ents[e].born /\ ents[e].exists) =>
      /\ primaryKey \in DOMAIN ents[e].attributes
      /\ ents[e].attributes[primaryKey] \notin {Undefined, Null}

\* C10: toJSON() of an entity whose revealHidden flag is false contains no
\* key of the model's hidden set, whatever attributes are set and whatever
\* relations are loaded.
C10_ToJSONHidesHidden ==
  \A e \in Ents :
    (ents[e].born /\ ~ents[e].showHidden) =>
      DOMAIN toJSON(ents[e]) \cap hidden = {}

(***************************************************************************)
(* Entity lifecycle with failing driver calls                              *)
(***************************************************************************)
\* model.save() whose driver call rejects
SaveRejected(e) ==
  /\ ents[e].born
  /\ ents[e].exists => isDirty(ents[e])
  /\ LET r == IF ents[e].exists THEN performUpdateRejected(ents[e])
                                ELSE performInsertRejected(ents[e])
     IN /\ ents' = [ents EXCEPT ![e] = r.ent]
        /\ last' = [op |-> IF ents[e].exists THEN "performUpdate"
                                             ELSE "performInsert",
                    ent |-> e, ret |-> r.ret, stmts |-> r.stmts]
  /\ UNCHANGED <<driver, primaryKey, rows, lastId>>

\* model.destroy() whose driver call rejects
DestroyRejected(e) ==
  /\ ents[e].born
  /\ ents[e].exists
  /\ LET r == destroyRejected(ents[e])
     IN /\ ents' = [ents EXCEPT ![e] = r.ent]
        /\ last' = [op |-> "destroy", ent |-> e, ret |-> r.ret, stmts |-> r.stmts]
  /\ UNCHANGED <<driver, primaryKey, rows, lastId>>

InitLifecycle ==
  /\ driver \in Drivers
  /\ primaryKey \in PrimaryKeys
  /\ rows = {}
  /\ lastId = 0
  /\ ents = [e \in Ents |-> NoEnt]
  /\ last = NoOp
  /\ InitProcsIdle
  /\ InitMigIdle
  /\ InitExtIdle

NextLifecycle ==
  /\ \/ \E e \in Ents : Construct(e)
     \/ \E e \in Ents : SetAttribute(e)
     \/ \E e \in Ents : Save(e)
     \/ \E e \in Ents : SaveRejected(e)
     \/ \E e \in Ents : Destroy(e)
     \/ \E e \in Ents : DestroyRejected(e)
  /\ UNCHANGED <<procVars, migVars, extVars>>

SpecLifecycle == InitLifecycle /\ [][NextLifecycle]_vars

\* the kinds of the statements an operation handed to the driver
Kinds(op) == {op.stmts[i].kind : i \in 1..Len(op.stmts)}

Saves == {"performInsert", "performUpdate"}

\* C28: over the save() and destroy() calls on one entity, failing or not,
\* an INSERT is issued only while exists = false, an UPDATE or DELETE only
\* while exists = true; exists changes only to true on a successful insert and
\* to false on a successful delete; a failed insert leaves exists = false and
\* the save() after it inserts; the second of two successful save() calls in a
\* row issues no INSERT and adds no row
C28_ExistsTracksRow ==
  [][ \A e \in Ents :
        (last'.op \in Saves \cup {"destroy"} /\ last'.ent = e) =>
          /\ "INSERT" \in Kinds(last') => ~ents[e].exists
          /\ Kinds(last') \cap {"UPDATE", "DELETE"} # {} => ents[e].exists
          /\ ents'[e].exists # ents[e].exists =>
               /\ last'.ret \in {"this", "true"}
               /\ ents'[e].exists <=> "INSERT" \in Kinds(last')
               /\ ~ents'[e].exists <=> "DELETE" \in Kinds(last')
          /\ ("INSERT" \in Kinds(last') /\ last'.ret = "throw") =>
               ~ents'[e].exists
          /\ ( /\ last.op = "performInsert" /\ last.ent = e
               /\ last.ret = "throw" /\ last'.op \in Saves )
             => /\ last'.op = "performInsert"
                /\ "INSERT" \in Kinds(last')
          /\ ( /\ last.op \in Saves /\ last.ent = e /\ last.ret = "this"
               /\ last'.op \in Saves /\ last'.ret = "this" )
             => /\ "INSERT" \notin Kinds(last')
                /\ Cardinality(rows') <= Cardinality(rows) ]_vars

\* a save() whose INSERT the driver rejected left exists = false and no row
C28_Witness ==
  /\ last.op = "performInsert"
  /\ last.ret = "throw"
  /\ ~InsertFails(ents.e1.attributes)
  /\ ~ents.e1.exists
  /\ rows = {}

(***************************************************************************)
(* Dirty tracking: getDirty / isDirty against the snapshot in original     *)
(***************************************************************************)
\* the values a program assigns besides the names: null, NaN, object literals
JsValues == {Null, NaN} \cup DOMAIN Objects

\* model.setAttribute('name', v) with a value that is no string
AssignAttribute(e) ==
  \E v \in JsValues :
    /\ ents[e].born
    /\ ents' = [ents EXCEPT ![e].attributes = setAttribute(@, "name", v)]
    /\ last' = NoOp
    /\ UNCHANGED <<driver, primaryKey, rows, lastId>>

InitDirty ==
  /\ driver = "sqlite"
  /\ primaryKey = "id"
  /\ rows = {}
  /\ lastId = 0
  /\ ents = [e \in Ents |-> NoEnt]
  /\ last = NoOp
  /\ InitProcsIdle
  /\ InitMigIdle
  /\ InitExtIdle

NextDirty ==
  /\ \/ \E e \in Ents : Construct(e)
     \/ \E e \in Ents : SetAttribute(e)
     \/ \E e \in Ents : AssignAttribute(e)
     \/ \E e \in Ents : Save(e)
     \/ \E e \in Ents : Get(e)
  /\ UNCHANGED <<procVars, migVars, extVars>>

SpecDirty == InitDirty /\ [][NextDirty]_vars

\* the properties of an object as a map from key to value
PropsOf(obj) ==
  [k \in {Objects[obj][i][1] : i \in 1..Len(Objects[obj])} |->
     LET i == CHOOSE j \in 1..Len(Objects[obj]) : Objects[obj][j][1] = k
     IN Objects[obj][i][2]]

\* deep equality of two values: the same primitive, or two objects with the
\* same keys holding equal values
DeepEqual(a, b) ==
  \/ a = b
  \/ /\ a \in DOMAIN Objects
     /\ b \in DOMAIN Objects
     /\ PropsOf(a) = PropsOf(b)

\* the keys of attributes whose value is not deep-equal to the snapshot's
Changed(e) ==
  {k \in DOMAIN e.attributes :
     ~DeepEqual(e.attributes[k], Prop(e.original, k))}

\* C23: getDirty() returns exactly the keys of attributes whose value is not
\* deep-equal to the snapshot in original, isDirty() is true iff there is such
\* a key, and right after a successful save() the snapshot is deep-equal to
\* attributes and getDirty() is empty
C23_DirtyIsDeepDifference ==
  \A e \in Ents :
    ents[e].born =>
      /\ DOMAIN getDirty(ents[e]) = Changed(ents[e])
      /\ isDirty(ents[e]) <=> Changed(ents[e]) # {}
      /\ ( /\ last.op \in {"performInsert", "performUpdate"}
           /\ last.ent = e
           /\ last.ret = "this" )
         => /\ DOMAIN ents[e].original = DOMAIN ents[e].attributes
            /\ \A k \in DOMAIN ents[e].attributes :
                 DeepEqual(ents[e].attributes[k], ents[e].original[k])
            /\ DOMAIN getDirty(ents[e]) = {}

(***************************************************************************)
(* Concurrent increment / decrement                                        *)
(***************************************************************************)
Procs == {"p1", "p2", "p3"}
MaxAmount == 2
CounterRows == { [id |-> 1, age |-> 5], [id |-> 2, age |-> 0] }
CounterWheres == { <<>>, <<where("id", 1)>> }
IdleProc == [pc |-> "idle"]

\* the value a reader that ran before the concurrent writers saw
StaleValue(r, column) ==
  (CHOOSE r0 \in initRows : r0.id = r.id)[column]

\* UPDATE table SET column = <value read earlier> + ? : a read-modify-write
DbIncrementStale(table, column, query, amount) ==
  { IF MatchesWhere(r, Wheres(query))
      THEN [r EXCEPT ![column] = StaleValue(r, column) + amount] ELSE r :
    r \in table }

\* UPDATE table SET column = column + ? <whereClause>
DbIncrement(table, column, query, amount) ==
  { IF MatchesWhere(r, Wheres(query))
      THEN [r EXCEPT ![column] = @ + amount] ELSE r : r \in table }

\* UPDATE table SET column = column - ? <whereClause>
DbDecrement(table, column, query, amount) ==
  { IF MatchesWhere(r, Wheres(query))
      THEN [r EXCEPT ![column] = @ - amount] ELSE r : r \in table }

\* QueryBuilder.increment(column, amount): buildQuery() is taken now, the
\* connection then awaits connect()
CallIncrement(p) ==
  \E amount \in 1..MaxAmount, ws \in CounterWheres :
    /\ procs[p].pc = "idle"
    /\ procs' = [procs EXCEPT ![p] =
                   [pc |-> "connect", kind |-> "increment", column |-> "age",
                    amount |-> amount, query |-> buildQuery(<<"*">>, ws, Null)]]
    /\ UNCHANGED <<modelVars, initRows, migVars, extVars>>

\* QueryBuilder.decrement(column, amount)
CallDecrement(p) ==
  \E amount \in 1..MaxAmount, ws \in CounterWheres :
    /\ procs[p].pc = "idle"
    /\ procs' = [procs EXCEPT ![p] =
                   [pc |-> "connect", kind |-> "decrement", column |-> "age",
                    amount |-> amount, query |-> buildQuery(<<"*">>, ws, Null)]]
    /\ UNCHANGED <<modelVars, initRows, migVars, extVars>>

\* await this.connect() resolves
Connected(p) ==
  /\ procs[p].pc = "connect"
  /\ procs' = [procs EXCEPT ![p].pc = "execute"]
  /\ UNCHANGED <<modelVars, initRows, migVars, extVars>>

\* DatabaseConnection.increment: the driver runs the one UPDATE statement
ExecIncrement(p) ==
  /\ procs[p].pc = "execute"
  /\ procs[p].kind = "increment"
  /\ rows' = DbIncrement(rows, procs[p].column, procs[p].query, procs[p].amount)
  /\ procs' = [procs EXCEPT ![p].pc = "done"]
  /\ UNCHANGED <<driver, primaryKey, lastId, ents, last, initRows, migVars, extVars>>

\* DatabaseConnection.decrement: the driver runs the one UPDATE statement
ExecDecrement(p) ==
  /\ procs[p].pc = "execute"
  /\ procs[p].kind = "decrement"
  /\ rows' = DbDecrement(rows, procs[p].column, procs[p].query, procs[p].amount)
  /\ procs' = [procs EXCEPT ![p].pc = "done"]
  /\ UNCHANGED <<driver, primaryKey, lastId, ents, last, initRows, migVars, extVars>>

InitCounter ==
  /\ driver \in Drivers
  /\ primaryKey = "id"
  /\ rows = CounterRows
  /\ lastId = 2
  /\ ents = [e \in Ents |-> NoEnt]
  /\ last = NoOp
  /\ procs = [p \in Procs |-> IdleProc]
  /\ initRows = CounterRows
  /\ InitMigIdle
  /\ InitExtIdle

NextCounter ==
  \/ \E p \in Procs : CallIncrement(p)
  \/ \E p \in Procs : CallDecrement(p)
  \/ \E p \in Procs : Connected(p)
  \/ \E p \in Procs : ExecIncrement(p)
  \/ \E p \in Procs : ExecDecrement(p)

SpecCounter == InitCounter /\ [][NextCounter]_vars

RECURSIVE SumDeltas(_, _)
\* sum of the signed amounts of the calls in ps whose WHERE matches row r0
SumDeltas(ps, r0) ==
  IF ps = {} THEN 0
  ELSE LET p == CHOOSE x \in ps : TRUE
           d == IF ~MatchesWhere(r0, Wheres(procs[p].query)) THEN 0
                ELSE IF procs[p].kind = "increment" THEN procs[p].amount
                ELSE 0 - procs[p].amount
       IN d + SumDeltas(ps \ {p}, r0)

AllDone == \A p \in Procs : procs[p].pc = "done"

\* C3: whatever the interleaving of the concurrent increment and decrement
\* calls, once all have completed every row's column equals its initial
\* value plus the amounts of the increments that matched it minus the
\* amounts of the decrements that matched it.
C3_NoLostUpdate ==
  AllDone =>
    \A r0 \in initRows :
      \E r \in rows :
        /\ r.id = r0.id
        /\ r.age = r0.age + SumDeltas(Procs, r0)

\* all calls completed, and an increment and a decrement hit the same row
C3_Witness ==
  /\ procs # EmptyFn
  /\ AllDone
  /\ \E p, q \in Procs :
       /\ procs[p].kind = "increment"
       /\ procs[q].kind = "decrement"
       /\ procs[p].amount # procs[q].amount
       /\ Len(procs[p].query.wheres) = 1
       /\ Len(procs[q].query.wheres) = 0


(***************************************************************************)
(* MigrationManager                                                        *)
(***************************************************************************)
MaxFiles == 2
MaxMigId == 4
MaxSteps == 2

\* unit files are named so that file order is the order of their numbers
AllFiles == 1..MaxFiles

Reverse(seq) == [i \in 1..Len(seq) |-> seq[Len(seq) + 1 - i]]

RECURSIVE SortAsc(_)
\* Array.prototype.sort() on the file names
SortAsc(S) ==
  IF S = {} THEN <<>>
  ELSE LET m == CHOOSE x \in S : \A y \in S : x <= y
       IN <<m>> \o SortAsc(S \ {m})

\* (batch, id) of row a sorts before that of row b
RowBefore(a, b) == a.batch < b.batch \/ (a.batch = b.batch /\ a.id < b.id)

RECURSIVE OrderByBatchIdAsc(_)
\* ORDER BY batch ASC, id ASC
OrderByBatchIdAsc(S) ==
  IF S = {} THEN <<>>
  ELSE LET m == CHOOSE x \in S : \A y \in S \ {x} : RowBefore(x, y)
       IN <<m>> \o OrderByBatchIdAsc(S \ {m})

\* ORDER BY batch DESC, id DESC
OrderByBatchIdDesc(S) == Reverse(OrderByBatchIdAsc(S))

\* SELECT MAX(batch): NULL on an empty table
MaxBatch(table) ==
  IF Len(table) = 0 THEN Null
  ELSE CHOOSE b \in {table[i].batch : i \in 1..Len(table)} :
         \A i \in 1..Len(table) : table[i].batch <= b

getAllMigrationFiles == SortAsc(files)

getRanMigrations == OrderByBatchIdAsc(Range(migrations))

\* every file is taken as pending: the filter on the recorded names is lost
getPendingMigrationsAll == getAllMigrationFiles

getPendingMigrations ==
  LET ranNames == {m.migration : m \in Range(getRanMigrations)}
  IN SelectSeq(getAllMigrationFiles, LAMBDA file : file \notin ranNames)

\* WHERE batch >= (SELECT MAX(batch) - (steps - 1)) ORDER BY batch DESC, id DESC
getLastBatchMigrations(steps) ==
  IF MaxBatch(migrations) = Null THEN <<>>
  ELSE OrderByBatchIdDesc(
         {m \in Range(migrations) : m.batch >= MaxBatch(migrations) - (steps - 1)})

\* the batch number of the last batch is used again
getNextBatchNumberReused ==
  IF MaxBatch(migrations) = Null THEN 1 ELSE MaxBatch(migrations)

\* result[0].max_batch || 0, plus one
getNextBatchNumber ==
  (IF MaxBatch(migrations) = Null THEN 0 ELSE MaxBatch(migrations)) + 1

\* INSERT INTO migrations (migration, batch) VALUES (?, ?)
recordMigration(table, migration, batch) ==
  Append(table, [id |-> nextMigId, migration |-> migration, batch |-> batch])

\* DELETE FROM migrations WHERE migration = ?
removeMigrationRecord(table, migration) ==
  SelectSeq(table, LAMBDA m : m.migration # migration)

\* the order in which rollback() walks the rows it selected
RollbackOrder(steps) == Reverse(getLastBatchMigrations(steps))

\* the rows are walked as selected, without reverse()
ResetOrderOldestFirst == getRanMigrations

\* the order in which reset() walks the recorded rows
ResetOrder == Reverse(getRanMigrations)

Ev(ev, unit) == [ev |-> ev, unit |-> unit]

Started(op, steps, todo) ==
  [op |-> op, steps |-> steps, status |-> IF Len(todo) = 0 THEN "ok" ELSE "running",
   calls |-> <<>>, before |-> migrations, appliedBefore |-> applied,
   filesRead |-> files, todo |-> todo, failedAt |-> "none", failedUnit |-> 0]

\* a unit file appears in the migrations directory
AddFile ==
  \E f \in AllFiles \ files :
    /\ files' = files \cup {f}
    /\ UNCHANGED <<modelVars, procVars, extVars, migrations, nextMigId, applied, mig,
                   inv, prevInv>>

\* run(): initialize, getPendingMigrations, return when there is none,
\* else getNextBatchNumber and enter the loop
Run ==
  /\ mig.pc = "idle"
  /\ nextMigId + Len(getPendingMigrations) - 1 <= MaxMigId
  /\ prevInv' = inv
  /\ inv' = Started("run", 0, getPendingMigrations)
  /\ mig' = IF Len(getPendingMigrations) = 0 THEN Idle
            ELSE [pc |-> "run", todo |-> getPendingMigrations,
                  batch |-> getNextBatchNumber]
  /\ UNCHANGED <<modelVars, procVars, extVars, files, migrations, nextMigId, applied>>

\* what is left of the loop after one more unit has been handled
Advance(op) ==
  IF Len(mig.todo) = 1 THEN Idle ELSE [mig EXCEPT !.todo = Tail(@)]

\* runMigration(file, batch): up() and recordMigration both succeed
RunMigration ==
  /\ mig.pc = "run"
  /\ LET file == Head(mig.todo)
     IN /\ applied' = applied \cup {file}
        /\ migrations' = recordMigration(migrations, file, mig.batch)
        /\ nextMigId' = nextMigId + 1
        /\ inv' = [inv EXCEPT
                     !.calls = @ \o <<Ev("up", file), Ev("record", file)>>,
                     !.status = IF Len(mig.todo) = 1 THEN "ok" ELSE "running"]
        /\ mig' = Advance("run")
  /\ UNCHANGED <<modelVars, procVars, extVars, files, prevInv>>

\* up() throws and the error is swallowed: the loop goes on with the next unit
RunMigrationUpFailsContinue ==
  /\ mig.pc = "run"
  /\ LET file == Head(mig.todo)
     IN inv' = [inv EXCEPT !.calls = @ \o <<Ev("up", file)>>,
                           !.status = IF Len(mig.todo) = 1 THEN "error"
                                                           ELSE "running",
                           !.failedAt = "up", !.failedUnit = file]
  /\ mig' = Advance("run")
  /\ UNCHANGED <<modelVars, procVars, extVars, files, migrations, nextMigId, applied,
                 prevInv>>

\* runMigration: up() throws; the error is rethrown and run() stops
RunMigrationUpFails ==
  /\ mig.pc = "run"
  /\ LET file == Head(mig.todo)
     IN inv' = [inv EXCEPT !.calls = @ \o <<Ev("up", file)>>,
                           !.status = "error", !.failedAt = "up",
                           !.failedUnit = file]
  /\ mig' = Idle
  /\ UNCHANGED <<modelVars, procVars, extVars, files, migrations, nextMigId, applied,
                 prevInv>>

\* runMigration: up() succeeds, recordMigration throws; run() stops
RunMigrationRecordFails ==
  /\ mig.pc = "run"
  /\ LET file == Head(mig.todo)
     IN /\ applied' = applied \cup {file}
        /\ inv' = [inv EXCEPT
                     !.calls = @ \o <<Ev("up", file), Ev("record", file)>>,
                     !.status = "error", !.failedAt = "record",
                     !.failedUnit = file]
  /\ mig' = Idle
  /\ UNCHANGED <<modelVars, procVars, extVars, files, migrations, nextMigId, prevInv>>

\* rollback(steps): initialize, getLastBatchMigrations, return when there is
\* none, else walk migrations.reverse()
Rollback ==
  \E steps \in 1..MaxSteps :
    /\ mig.pc = "idle"
    /\ prevInv' = inv
    /\ inv' = Started("rollback", steps,
                      [i \in 1..Len(RollbackOrder(steps)) |->
                         RollbackOrder(steps)[i].migration])
    /\ mig' = IF Len(RollbackOrder(steps)) = 0 THEN Idle
              ELSE [pc |-> "rollback", todo |-> RollbackOrder(steps), batch |-> 0]
    /\ UNCHANGED <<modelVars, procVars, extVars, files, migrations, nextMigId, applied>>

\* reset(): initialize, getRanMigrations, return when there is none, else
\* walk allMigrations.reverse()
Reset ==
  /\ mig.pc = "idle"
  /\ prevInv' = inv
  /\ inv' = Started("reset", 0,
                    [i \in 1..Len(ResetOrder) |-> ResetOrder[i].migration])
  /\ mig' = IF Len(ResetOrder) = 0 THEN Idle
            ELSE [pc |-> "rollback", todo |-> ResetOrder, batch |-> 0]
  /\ UNCHANGED <<modelVars, procVars, extVars, files, migrations, nextMigId, applied>>

\* rollbackMigration(record): down() and removeMigrationRecord both succeed
RollbackMigration ==
  /\ mig.pc = "rollback"
  /\ LET unit == Head(mig.todo).migration
     IN /\ applied' = applied \ {unit}
        /\ migrations' = removeMigrationRecord(migrations, unit)
        /\ inv' = [inv EXCEPT
                     !.calls = @ \o <<Ev("down", unit), Ev("remove", unit)>>,
                     !.status = IF Len(mig.todo) = 1 THEN "ok" ELSE "running"]
        /\ mig' = Advance("rollback")
  /\ UNCHANGED <<modelVars, procVars, extVars, files, nextMigId, prevInv>>

\* rollbackMigration: down() throws; the error is rethrown
RollbackMigrationDownFails ==
  /\ mig.pc = "rollback"
  /\ LET unit == Head(mig.todo).migration
     IN inv' = [inv EXCEPT !.calls = @ \o <<Ev("down", unit)>>,
                           !.status = "error", !.failedAt = "down",
                           !.failedUnit = unit]
  /\ mig' = Idle
  /\ UNCHANGED <<modelVars, procVars, extVars, files, migrations, nextMigId, applied,
                 prevInv>>

\* rollbackMigration: down() succeeds, removeMigrationRecord throws
RollbackMigrationRemoveFails ==
  /\ mig.pc = "rollback"
  /\ LET unit == Head(mig.todo).migration
     IN /\ applied' = applied \ {unit}
        /\ inv' = [inv EXCEPT
                     !.calls = @ \o <<Ev("down", unit), Ev("remove", unit)>>,
                     !.status = "error", !.failedAt = "remove",
                     !.failedUnit = unit]
  /\ mig' = Idle
  /\ UNCHANGED <<modelVars, procVars, extVars, files, migrations, nextMigId, prevInv>>

InitMigrations ==
  /\ driver \in {"sqlite"}
  /\ primaryKey = "id"
  /\ rows = {}
  /\ lastId = 0
  /\ ents = [e \in Ents |-> NoEnt]
  /\ last = NoOp
  /\ InitProcsIdle
  /\ InitMigIdle
  /\ InitExtIdle

NextMigrations ==
  \/ AddFile
  \/ Run
  \/ RunMigration
  \/ RunMigrationUpFails
  \/ RunMigrationRecordFails
  \/ Rollback
  \/ Reset
  \/ RollbackMigration
  \/ RollbackMigrationDownFails
  \/ RollbackMigrationRemoveFails

SpecMigrations == InitMigrations /\ [][NextMigrations]_vars


(***************************************************************************)
(* Properties of the MigrationManager                                      *)
(***************************************************************************)
IsPrefix(a, b) ==
  /\ Len(a) <= Len(b)
  /\ \A i \in 1..Len(a) : a[i] = b[i]

\* the units on which the invocation called ev ("up", "down"), in call order
Units(calls, ev) ==
  LET sel == SelectSeq(calls, LAMBDA c : c.ev = ev)
  IN [i \in 1..Len(sel) |-> sel[i].unit]

Names(table) == [i \in 1..Len(table) |-> table[i].migration]

Recorded == Range(Names(migrations))

\* position of unit u in the list todo
IndexOf(todo, u) == CHOOSE i \in 1..Len(todo) : todo[i] = u

SameFiles == inv.filesRead = prevInv.filesRead

\* C4: when run() is invoked twice in succession (the first invocation
\* returned without error) and no unit file was added in between, the second
\* invocation calls no up(), inserts no tracking row and leaves the tracking
\* table as the first invocation left it.
C4_RunIdempotent ==
  (inv.op = "run" /\ prevInv.op = "run" /\ prevInv.status = "ok" /\ SameFiles) =>
    /\ inv.calls = <<>>
    /\ inv.status = "ok"
    /\ mig.pc = "idle"
    /\ migrations = inv.before

\* a run() that applied two units, followed by a second run() on the same files
C4_Witness ==
  /\ inv.op = "run" /\ prevInv.op = "run" /\ prevInv.status = "ok" /\ SameFiles
  /\ Len(prevInv.todo) >= 2
  /\ Len(migrations) >= 2

\* C5: when up() of the k-th pending unit fails, run() stops with that error;
\* the units before k are applied and recorded, unit k and the later units are
\* not recorded and up() was not called on the later units; the next run()
\* (same files) has exactly unit k and the later units to apply, in file
\* order, and calls up() on them in that order.
C5_FailFastAndResume ==
  /\ (inv.op = "run" /\ inv.failedAt = "up") =>
       LET k == IndexOf(inv.todo, inv.failedUnit)
       IN /\ inv.status = "error"
          /\ mig.pc = "idle"
          /\ \A i \in 1..(k - 1) :
               inv.todo[i] \in applied /\ inv.todo[i] \in Recorded
          /\ \A i \in k..Len(inv.todo) : inv.todo[i] \notin Recorded
          /\ Units(inv.calls, "up") = SubSeq(inv.todo, 1, k)
  /\ (inv.op = "run" /\ prevInv.op = "run" /\ prevInv.failedAt = "up" /\ SameFiles) =>
       LET k == IndexOf(prevInv.todo, prevInv.failedUnit)
       IN /\ inv.todo = SubSeq(prevInv.todo, k, Len(prevInv.todo))
          /\ IsPrefix(Units(inv.calls, "up"), inv.todo)
          /\ inv.status = "ok" => Units(inv.calls, "up") = inv.todo

\* up() of the second pending unit failed, and the next run() completed
C5_Witness ==
  /\ inv.op = "run" /\ prevInv.op = "run" /\ prevInv.failedAt = "up" /\ SameFiles
  /\ Len(prevInv.todo) >= 2
  /\ prevInv.failedUnit = prevInv.todo[2]
  /\ inv.status = "ok"
  /\ Len(migrations) >= 2

\* the rows rollback(steps) has to undo, in insertion order
RollbackSelection(table, steps) ==
  SelectSeq(table, LAMBDA m : m.batch >= MaxBatch(table) - (steps - 1))

\* C6: rollback(steps) calls down() on exactly the tracking rows whose batch
\* is >= max(batch) - (steps - 1), the most recently recorded unit first and
\* the earliest recorded unit last, and deletes each unit's row after its
\* down() succeeded.
C6_RollbackNewestFirst ==
  (inv.op = "rollback" /\ inv.status = "ok") =>
    LET sel == RollbackSelection(inv.before, inv.steps)
    IN /\ Units(inv.calls, "down") = Reverse(Names(sel))
       /\ migrations = SelectSeq(inv.before, LAMBDA m : m \notin Range(sel))

\* C7: run() applies exactly the unit files absent from the tracking table,
\* in ascending file order, and records each after its up() succeeded, all
\* with one batch number max(batch)+1 (1 on an empty table), which is greater
\* than every batch number present before the call.
C7_RunAppliesPendingInOrder ==
  inv.op = "run" =>
    LET absent == {f \in inv.filesRead : f \notin Range(Names(inv.before))}
        batch == IF Len(inv.before) = 0 THEN 1 ELSE MaxBatch(inv.before) + 1
        new == SubSeq(migrations, Len(inv.before) + 1, Len(migrations))
    IN /\ inv.todo = SortAsc(absent)
       /\ IsPrefix(Units(inv.calls, "up"), inv.todo)
       /\ inv.status = "ok" => Units(inv.calls, "up") = inv.todo
       /\ IsPrefix(inv.before, migrations)
       /\ IsPrefix(Names(new), Units(inv.calls, "up"))
       /\ inv.status = "ok" => Names(new) = inv.todo
       /\ \A i \in 1..Len(new) :
            /\ new[i].batch = batch
            /\ new[i].migration \in applied
            /\ \A j \in 1..Len(inv.before) : inv.before[j].batch < new[i].batch

\* a completed run() on a non-empty tracking table that recorded a unit in a
\* batch after the first
C7_Witness ==
  /\ inv.op = "run" /\ inv.status = "ok"
  /\ Len(inv.todo) >= 1
  /\ Len(inv.before) >= 1
  /\ migrations[Len(migrations)].batch >= 2

\* C8: reset() calls down() on every recorded unit newest-first and, when
\* every down() succeeds, leaves the tracking table empty; a run() that
\* returned without error, followed by such a reset(), returns the set of
\* applied units to the empty set it was before the run().
C8_ResetNewestFirst ==
  /\ inv.op = "reset" =>
       /\ IsPrefix(Units(inv.calls, "down"), Reverse(Names(inv.before)))
       /\ inv.status = "ok" =>
            /\ Units(inv.calls, "down") = Reverse(Names(inv.before))
            /\ migrations = <<>>
  /\ (inv.op = "reset" /\ inv.status = "ok" /\ prevInv.op = "run"
        /\ prevInv.status = "ok" /\ prevInv.appliedBefore = {}) =>
       applied = {}

\* a reset() of two recorded units right after the run() that applied them
C8_Witness ==
  /\ inv.op = "reset" /\ inv.status = "ok"
  /\ Len(inv.before) >= 2
  /\ prevInv.op = "run" /\ prevInv.status = "ok" /\ prevInv.appliedBefore = {}
  /\ Len(prevInv.todo) >= 2

\* C27: whatever up(), down() or write to the tracking table failed, a unit
\* is recorded in the tracking table iff its up() was applied and not undone
\* by a later down(); each unit is recorded at most once, and run() calls
\* up() on no unit that was applied when it started
C27_RecordedIffApplied ==
  /\ Recorded = applied
  /\ Len(migrations) = Cardinality(Recorded)
  /\ inv.op = "run" =>
       \A i \in 1..Len(inv.calls) :
         inv.calls[i].ev = "up" => inv.calls[i].unit \notin inv.appliedBefore


(***************************************************************************)
(* Relations                                                               *)
(***************************************************************************)
MaxParents == 3

RelationKinds ==
  {"hasOne", "hasMany", "belongsTo", "belongsToMany", "hasManyThrough",
   "hasOneThrough", "morphOne", "morphMany", "morphTo"}

\* the relation methods of the model classes, by table of the class
ClassRelations ==
  [users |->
     [profile |-> [kind |-> "hasOne", related |-> "profiles",
                   foreignKey |-> "user_id", localKey |-> "id"],
      posts |-> [kind |-> "hasMany", related |-> "posts",
                 foreignKey |-> "user_id", localKey |-> "id"],
      owner |-> [kind |-> "belongsTo", related |-> "owners",
                 foreignKey |-> "owner_id", ownerKey |-> "id"],
      roles |-> [kind |-> "belongsToMany", related |-> "roles",
                 pivot |-> "role_user", foreignPivotKey |-> "user_id",
                 relatedPivotKey |-> "role_id", parentKey |-> "id",
                 relatedKey |-> "id", pivotColumns |-> <<>>],
      comments |-> [kind |-> "hasManyThrough", related |-> "comments",
                    through |-> "posts", foreignKeyOnThrough |-> "user_id",
                    throughKeyOnFinal |-> "post_id", localKey |-> "id",
                    throughLocalKey |-> "id"],
      comment |-> [kind |-> "hasOneThrough", related |-> "comments",
                   through |-> "posts", foreignKeyOnThrough |-> "user_id",
                   throughKeyOnFinal |-> "post_id", localKey |-> "id",
                   throughLocalKey |-> "id"],
      image |-> [kind |-> "morphOne", related |-> "images",
                 morphType |-> "imageable", foreignKey |-> "imageable_id",
                 localKey |-> "id"],
      images |-> [kind |-> "morphMany", related |-> "images",
                  morphType |-> "imageable", foreignKey |-> "imageable_id",
                  localKey |-> "id"],
      imageable |-> [kind |-> "morphTo", related |-> "",
                     typeColumn |-> "imageable_type",
                     idColumn |-> "imageable_id"]],
   posts |->
     [comments |-> [kind |-> "hasMany", related |-> "comments",
                    foreignKey |-> "post_id", localKey |-> "id"]]]

RelationsOf(class) ==
  IF class \in DOMAIN ClassRelations THEN ClassRelations[class] ELSE EmptyFn

\* static morphMap of the class that declares the morphTo relation
morphMap == [posts |-> "posts", videos |-> "videos", owners |-> "owners"]

\* v !== null && v !== undefined
Present(v) == v \notin {Null, Undefined}

\* the values a relation can be set to: null, one model, an array of models
RelNull == [many |-> FALSE, vals |-> <<>>]
RelOne(e) == [many |-> FALSE, vals |-> <<e>>]
RelMany(es) == [many |-> TRUE, vals |-> es]

\* the callback of with({ path: cb }): qb => qb.where('flag', 1)
Constraints == {"none", "flag"}
Constrain(found, constraint) ==
  IF constraint = "none" THEN found
  ELSE SelectSeq(found, LAMBDA r : Prop(r, "flag") = 1)

\* one SELECT handed to the connection
Q(table, constraint) == [table |-> table, constraint |-> constraint]

\* related.whereIn(column, keys) with the constraint applied, then get()
whereIn(table, column, keys, constraint) ==
  Constrain(SelectSeq(tables[table], LAMBDA r : Prop(r, column) \in keys),
            constraint)

Hydrated(found) == [i \in 1..Len(found) |-> hydrate(found[i], FALSE)]

\* the attributes of the models of a list
Attributes(ms) == [i \in 1..Len(ms) |-> ms[i].attributes]

\* the models of found whose column holds v, in result order
Hits(found, column, v) ==
  Hydrated(SelectSeq(found, LAMBDA r : Prop(r, column) = v))

\* map[key] = model in a loop: the last model with that key stays
LastOf(hits) == IF Len(hits) = 0 THEN RelNull ELSE RelOne(hits[Len(hits)])

\* models.forEach(m => { m.relations[name] = value(m) })
SetRelation(ms, name, value(_)) ==
  [i \in 1..Len(ms) |->
     [ms[i] EXCEPT !.relations = Assign(@, name, value(ms[i]))]]

\* models.map(m => m.getAttribute(column)).filter(present)
PresentKeys(ms, column) ==
  {k \in {getAttribute(ms[i], column) : i \in 1..Len(ms)} :
     Present(k)}

NoLoad(ms) == [queries |-> <<>>, models |-> ms]

RECURSIVE ConcatAll(_)
\* [].concat(...lists)
ConcatAll(lists) ==
  IF Len(lists) = 0 THEN <<>> ELSE Head(lists) \o ConcatAll(Tail(lists))

Column(found, column) == [i \in 1..Len(found) |-> Prop(found[i], column)]

\* HasOneRelation.eagerLoad
HasOneEagerLoad(rel, ms, name, constraint) ==
  LET keys == PresentKeys(ms, rel.localKey)
      found == whereIn(rel.related, rel.foreignKey, keys, constraint)
  IN IF keys = {} THEN NoLoad(ms)
     ELSE [queries |-> <<Q(rel.related, constraint)>>,
           models |-> SetRelation(ms, name,
             LAMBDA m : LastOf(Hits(found, rel.foreignKey,
                                    getAttribute(m, rel.localKey))))]

\* HasManyRelation.eagerLoad
HasManyEagerLoad(rel, ms, name, constraint) ==
  LET keys == PresentKeys(ms, rel.localKey)
      found == whereIn(rel.related, rel.foreignKey, keys, constraint)
  IN IF keys = {} THEN NoLoad(ms)
     ELSE [queries |-> <<Q(rel.related, constraint)>>,
           models |-> SetRelation(ms, name,
             LAMBDA m : RelMany(Hits(found, rel.foreignKey,
                                     getAttribute(m, rel.localKey))))]

\* BelongsToRelation.eagerLoad (defaultValue = null)
BelongsToEagerLoad(rel, ms, name, constraint) ==
  LET keys == PresentKeys(ms, rel.foreignKey)
      found == whereIn(rel.related, rel.ownerKey, keys, constraint)
  IN IF keys = {} THEN NoLoad(ms)
     ELSE [queries |-> <<Q(rel.related, constraint)>>,
           models |-> SetRelation(ms, name,
             LAMBDA m : LastOf(Hits(found, rel.ownerKey,
                                    getAttribute(m, rel.foreignKey))))]

\* the rows MorphOneRelation / MorphManyRelation.eagerLoad select: the keys
\* are not filtered, the type is the table of models[0]'s class
MorphFound(rel, ms, class, constraint) ==
  LET keys == {getAttribute(ms[i], rel.localKey) : i \in 1..Len(ms)}
  IN Constrain(SelectSeq(tables[rel.related],
                 LAMBDA r : /\ Prop(r, rel.foreignKey) \in keys
                            /\ r[rel.morphType \o "_type"] = class),
               constraint)

\* MorphOneRelation.eagerLoad
MorphOneEagerLoad(rel, ms, class, name, constraint) ==
  LET found == MorphFound(rel, ms, class, constraint)
  IN [queries |-> <<Q(rel.related, constraint)>>,
      models |-> SetRelation(ms, name,
        LAMBDA m : LastOf(Hits(found, rel.foreignKey,
                               getAttribute(m, rel.localKey))))]

\* MorphManyRelation.eagerLoad
MorphManyEagerLoad(rel, ms, class, name, constraint) ==
  LET found == MorphFound(rel, ms, class, constraint)
  IN [queries |-> <<Q(rel.related, constraint)>>,
      models |-> SetRelation(ms, name,
        LAMBDA m : RelMany(Hits(found, rel.foreignKey,
                                getAttribute(m, rel.localKey))))]

\* if (type && id) of MorphToRelation.eagerLoad; a missing type is ""
Grouped(rel, m) ==
  /\ m.attributes[rel.typeColumn] # ""
  /\ getAttribute(m, rel.idColumn) \notin {Null, Undefined, 0}

RECURSIVE TypeOrder(_, _, _)
\* Object.entries(grouped): the morph types in order of first appearance
TypeOrder(rel, ms, seen) ==
  IF Len(ms) = 0 THEN <<>>
  ELSE LET t == Head(ms).attributes[rel.typeColumn]
       IN IF Grouped(rel, Head(ms)) /\ t \notin seen
            THEN <<t>> \o TypeOrder(rel, Tail(ms), seen \cup {t})
            ELSE TypeOrder(rel, Tail(ms), seen)

\* resolveMorphClass
resolveMorphClass(type) ==
  IF type \in DOMAIN morphMap THEN morphMap[type] ELSE ""

\* MorphToRelation.eagerLoad: one SELECT per morph type that resolves; a type
\* that does not resolve is passed over (continue), nothing is thrown
MorphToEagerLoad(rel, ms, name, constraint) ==
  LET types == SelectSeq(TypeOrder(rel, ms, {}),
                         LAMBDA t : resolveMorphClass(t) # "")
      ids(t) == {getAttribute(ms[i], rel.idColumn) :
                   i \in {j \in 1..Len(ms) :
                            /\ Grouped(rel, ms[j])
                            /\ ms[j].attributes[rel.typeColumn] = t}}
      load(m) ==
        LET t == m.attributes[rel.typeColumn]
            found == whereIn(resolveMorphClass(t), "id", ids(t), constraint)
        IN LastOf(Hits(found, "id", getAttribute(m, rel.idColumn)))
  IN [queries |->
        [i \in 1..Len(types) |-> Q(resolveMorphClass(types[i]), constraint)],
      models |->
        [i \in 1..Len(ms) |->
           IF Grouped(rel, ms[i])
              /\ resolveMorphClass(ms[i].attributes[rel.typeColumn]) # ""
             THEN [ms[i] EXCEPT !.relations = Assign(@, name, load(ms[i]))]
             ELSE ms[i]],
      error |-> "none"]

\* BelongsToManyRelation.eagerLoad (no wherePivot, withTimestamps = false).
\* relatedMap holds one model object per related key and every pivot record
\* assigns its pivotData to that object before pushing it, so each listed
\* model shows the pivotData of the last pivot record with its key
BelongsToManyEagerLoad(rel, ms, name, constraint) ==
  LET keys == PresentKeys(ms, rel.parentKey)
      pivotRecords == SelectSeq(tables[rel.pivot],
                        LAMBDA r : Prop(r, rel.foreignPivotKey) \in keys)
      relatedIds == Range(Column(pivotRecords, rel.relatedPivotKey))
      found == whereIn(rel.related, rel.relatedKey, relatedIds, constraint)
      pivotData(pivotRecord) ==
        [col \in Range(rel.pivotColumns) |-> Prop(pivotRecord, col)]
      lastRecord(relatedKeyValue) ==
        LET same == SelectSeq(pivotRecords,
                      LAMBDA r : r[rel.relatedPivotKey] = relatedKeyValue)
        IN same[Len(same)]
      related(m) ==
        LET mine == SelectSeq(pivotRecords,
                      LAMBDA r : r[rel.foreignPivotKey] =
                                   getAttribute(m, rel.parentKey))
        IN ConcatAll([i \in 1..Len(mine) |->
             LET hit == LastOf(Hits(found, rel.relatedKey,
                                    mine[i][rel.relatedPivotKey]))
             IN [j \in 1..Len(hit.vals) |->
                   Assign(hit.vals[j], "pivot",
                          pivotData(lastRecord(mine[i][rel.relatedPivotKey])))]])
  IN IF keys = {} THEN NoLoad(ms)
     ELSE IF Len(pivotRecords) = 0
       THEN [queries |-> <<Q(rel.pivot, "none")>>,
             models |-> SetRelation(ms, name, LAMBDA m : RelMany(<<>>))]
       ELSE [queries |-> <<Q(rel.pivot, "none"), Q(rel.related, constraint)>>,
             models |-> SetRelation(ms, name, LAMBDA m : RelMany(related(m)))]

\* an eagerLoad that gives every parent the finals of all the through rows
HasManyThroughEagerLoadUngrouped(rel, ms, name, constraint) ==
  LET keys == PresentKeys(ms, rel.localKey)
      throughRows == whereIn(rel.through, rel.foreignKeyOnThrough, keys, "none")
      allThroughIds == Range(Column(throughRows, rel.throughLocalKey))
      finals == whereIn(rel.related, rel.throughKeyOnFinal, allThroughIds,
                        constraint)
  IN IF keys = {} THEN
       [queries |-> <<>>,
        models |-> SetRelation(ms, name, LAMBDA m : RelMany(<<>>))]
     ELSE IF Len(throughRows) = 0 THEN
       [queries |-> <<Q(rel.through, "none")>>,
        models |-> SetRelation(ms, name, LAMBDA m : RelMany(<<>>))]
     ELSE
       [queries |-> <<Q(rel.through, "none"), Q(rel.related, constraint)>>,
        models |-> SetRelation(ms, name, LAMBDA m : RelMany(Hydrated(finals)))]

\* HasManyThroughRelation.eagerLoad
HasManyThroughEagerLoad(rel, ms, name, constraint) ==
  LET keys == PresentKeys(ms, rel.localKey)
      throughRows == whereIn(rel.through, rel.foreignKeyOnThrough, keys, "none")
      allThroughIds == Range(Column(throughRows, rel.throughLocalKey))
      finals == whereIn(rel.related, rel.throughKeyOnFinal, allThroughIds,
                        constraint)
      collected(m) ==
        LET tIds == Column(SelectSeq(throughRows,
                      LAMBDA r : r[rel.foreignKeyOnThrough] =
                                   getAttribute(m, rel.localKey)),
                      rel.throughLocalKey)
        IN ConcatAll([i \in 1..Len(tIds) |->
                        Hits(finals, rel.throughKeyOnFinal, tIds[i])])
  IN IF keys = {} THEN
       [queries |-> <<>>,
        models |-> SetRelation(ms, name, LAMBDA m : RelMany(<<>>))]
     ELSE IF Len(throughRows) = 0 THEN
       [queries |-> <<Q(rel.through, "none")>>,
        models |-> SetRelation(ms, name, LAMBDA m : RelMany(<<>>))]
     ELSE
       [queries |-> <<Q(rel.through, "none"), Q(rel.related, constraint)>>,
        models |-> SetRelation(ms, name, LAMBDA m : RelMany(collected(m)))]

\* HasOneThroughRelation.eagerLoad
HasOneThroughEagerLoad(rel, ms, name, constraint) ==
  LET keys == PresentKeys(ms, rel.localKey)
      throughRows == whereIn(rel.through, rel.foreignKeyOnThrough, keys, "none")
      allThroughIds == Range(Column(throughRows, rel.throughLocalKey))
      finals == whereIn(rel.related, rel.throughKeyOnFinal, allThroughIds,
                        constraint)
      final(m) ==
        LET mine == SelectSeq(throughRows,
                      LAMBDA r : r[rel.foreignKeyOnThrough] =
                                   getAttribute(m, rel.localKey))
        IN IF Len(mine) = 0 \/ mine[Len(mine)][rel.throughLocalKey] = 0
             THEN RelNull
             ELSE LastOf(Hits(finals, rel.throughKeyOnFinal,
                              mine[Len(mine)][rel.throughLocalKey]))
  IN IF keys = {} THEN
       [queries |-> <<>>, models |-> SetRelation(ms, name, LAMBDA m : RelNull)]
     ELSE IF Len(throughRows) = 0 THEN
       [queries |-> <<Q(rel.through, "none")>>,
        models |-> SetRelation(ms, name, LAMBDA m : RelNull)]
     ELSE
       [queries |-> <<Q(rel.through, "none"), Q(rel.related, constraint)>>,
        models |-> SetRelation(ms, name, LAMBDA m : final(m))]

\* relation.eagerLoad(models, name, constraint) on models of the given class
eagerLoad(rel, ms, class, name, constraint) ==
  CASE rel.kind = "hasOne" -> HasOneEagerLoad(rel, ms, name, constraint)
    [] rel.kind = "hasMany" -> HasManyEagerLoad(rel, ms, name, constraint)
    [] rel.kind = "belongsTo" -> BelongsToEagerLoad(rel, ms, name, constraint)
    [] rel.kind = "belongsToMany" ->
         BelongsToManyEagerLoad(rel, ms, name, constraint)
    [] rel.kind = "hasManyThrough" ->
         HasManyThroughEagerLoad(rel, ms, name, constraint)
    [] rel.kind = "hasOneThrough" ->
         HasOneThroughEagerLoad(rel, ms, name, constraint)
    [] rel.kind = "morphOne" ->
         MorphOneEagerLoad(rel, ms, class, name, constraint)
    [] rel.kind = "morphMany" ->
         MorphManyEagerLoad(rel, ms, class, name, constraint)
    [] rel.kind = "morphTo" -> MorphToEagerLoad(rel, ms, name, constraint)

\* the models a loaded relation holds: Array.isArray(rel) ? rel : (rel ? [rel] : [])
RelatedOf(m, head) ==
  IF head \in DOMAIN m.relations THEN m.relations[head].vals ELSE <<>>

\* the models of ms with the relation head of each replaced by its share of
\* the models loaded for the tail of the path
Nested(ms, head, loaded) ==
  LET offset(i) ==
        Len(ConcatAll([j \in 1..(i - 1) |-> RelatedOf(ms[j], head)]))
  IN [i \in 1..Len(ms) |->
        IF head \in DOMAIN ms[i].relations
          THEN [ms[i] EXCEPT !.relations[head].vals =
                  SubSeq(loaded, offset(i) + 1,
                         offset(i) + Len(RelatedOf(ms[i], head)))]
          ELSE ms[i]]

RECURSIVE loadRelationPath(_, _, _, _)
\* QueryBuilder.loadRelationPath on models of the given class; path is the
\* list of the segments of the dotted path. r1 is the result of the eager
\* load of the head, r2 that of the tail on the related models
loadRelationPath(ms, class, path, constraint) ==
  IF Len(ms) = 0 THEN NoLoad(ms)
  ELSE
    LET head == Head(path)
        tail == Tail(path)
        rels == RelationsOf(class)
        relatedModels(loaded) ==
          ConcatAll([i \in 1..Len(loaded) |-> RelatedOf(loaded[i], head)])
    IN CHOOSE out \in UNION {
         { IF Len(tail) = 0 \/ Len(relatedModels(r1.models)) = 0 THEN r1
           ELSE [queries |-> r1.queries \o r2.queries,
                 models |-> Nested(r1.models, head, r2.models)] :
           r2 \in { IF Len(tail) = 0 \/ Len(relatedModels(r1.models)) = 0
                      THEN NoLoad(<<>>)
                      ELSE loadRelationPath(relatedModels(r1.models),
                                            rels[head].related, tail, "none") } } :
         r1 \in { IF head \in DOMAIN rels
                    THEN eagerLoad(rels[head], ms, class, head, constraint)
                    ELSE NoLoad(ms) } } : TRUE

\* QueryBuilder.with(path) / with({ path: cb }) followed by get(): select,
\* hydrate, eagerLoadRelations
getWith(class, path, constraint) ==
  LET instances == Hydrated(tables[class])
      r == loadRelationPath(instances, class, path, constraint)
  IN [queries |-> <<Q(class, "none")>> \o r.queries, models |-> r.models]

\* first(): the first row of the result or null
FirstOf(found) ==
  IF Len(found) = 0 THEN RelNull ELSE RelOne(hydrate(found[1], FALSE))

\* related.where(column, v): the rows of the related table that match
whereEq(table, column, v) ==
  SelectSeq(tables[table], LAMBDA r : Prop(r, column) = v)

\* HasOneRelation.get
HasOneGet(rel, m) ==
  [queries |-> <<Q(rel.related, "none")>>,
   value |-> FirstOf(whereEq(rel.related, rel.foreignKey,
                             getAttribute(m, rel.localKey)))]

\* HasManyRelation.get
HasManyGet(rel, m) ==
  [queries |-> <<Q(rel.related, "none")>>,
   value |-> RelMany(Hydrated(whereEq(rel.related, rel.foreignKey,
                                      getAttribute(m, rel.localKey))))]

\* BelongsToRelation.get (defaultValue = null)
BelongsToGet(rel, m) ==
  IF getAttribute(m, rel.foreignKey) \in {Null, Undefined, 0}
    THEN [queries |-> <<>>, value |-> RelNull]
    ELSE [queries |-> <<Q(rel.related, "none")>>,
          value |-> FirstOf(whereEq(rel.related, rel.ownerKey,
                                    getAttribute(m, rel.foreignKey)))]

\* the rows MorphOneRelation / MorphManyRelation.get select
MorphGetFound(rel, m, class) ==
  SelectSeq(whereEq(rel.related, rel.foreignKey, getAttribute(m, rel.localKey)),
            LAMBDA r : r[rel.morphType \o "_type"] = class)

\* MorphOneRelation.get
MorphOneGet(rel, m, class) ==
  [queries |-> <<Q(rel.related, "none")>>,
   value |-> FirstOf(MorphGetFound(rel, m, class))]

\* MorphManyRelation.get
MorphManyGet(rel, m, class) ==
  [queries |-> <<Q(rel.related, "none")>>,
   value |-> RelMany(Hydrated(MorphGetFound(rel, m, class)))]

\* HasManyThroughRelation.get
HasManyThroughGet(rel, m) ==
  LET parentKeyValue == getAttribute(m, rel.localKey)
      throughRows == whereEq(rel.through, rel.foreignKeyOnThrough, parentKeyValue)
      throughIds == Column(throughRows, rel.throughLocalKey)
  IN IF ~Present(parentKeyValue) THEN
       [queries |-> <<>>, value |-> RelMany(<<>>)]
     ELSE IF Len(throughIds) = 0 THEN
       [queries |-> <<Q(rel.through, "none")>>, value |-> RelMany(<<>>)]
     ELSE
       [queries |-> <<Q(rel.through, "none"), Q(rel.related, "none")>>,
        value |-> RelMany(Hydrated(whereIn(rel.related, rel.throughKeyOnFinal,
                                           Range(throughIds), "none")))]

\* MorphToRelation.get: null when the type or the id is missing, null when
\* resolveMorphClass gives no class, else the first row with that key
MorphToGet(rel, m) ==
  LET morphType == m.attributes[rel.typeColumn]
      morphId == getAttribute(m, rel.idColumn)
      relatedClass == resolveMorphClass(morphType)
  IN IF ~Grouped(rel, m) THEN
       [queries |-> <<>>, value |-> RelNull, error |-> "none"]
     ELSE IF relatedClass = "" THEN
       [queries |-> <<>>, value |-> RelNull, error |-> "none"]
     ELSE
       [queries |-> <<Q(relatedClass, "none")>>,
        value |-> FirstOf(whereEq(relatedClass, "id", morphId)),
        error |-> "none"]

\* relation.get() as Model._loadRelationPath calls it
relationGet(rel, m, class) ==
  CASE rel.kind = "hasOne" -> HasOneGet(rel, m)
    [] rel.kind = "hasMany" -> HasManyGet(rel, m)
    [] rel.kind = "belongsTo" -> BelongsToGet(rel, m)
    [] rel.kind = "morphOne" -> MorphOneGet(rel, m, class)
    [] rel.kind = "morphMany" -> MorphManyGet(rel, m, class)

RECURSIVE load(_, _, _)
\* Model.load(path) through Model._loadRelationPath, on a model of the given
\* class
load(m, class, path) ==
  LET head == Head(path)
      tail == Tail(path)
      rels == RelationsOf(class)
      g == relationGet(rels[head], m, class)
      nested == [i \in 1..Len(g.value.vals) |->
                   load(g.value.vals[i], rels[head].related, tail)]
  IN IF head \notin DOMAIN rels THEN [queries |-> <<>>, model |-> m]
     ELSE IF Len(tail) = 0
       THEN [queries |-> g.queries,
             model |-> [m EXCEPT !.relations = Assign(@, head, g.value)]]
       ELSE [queries |->
               g.queries \o ConcatAll([i \in 1..Len(nested) |-> nested[i].queries]),
             model |->
               [m EXCEPT !.relations = Assign(@, head,
                  [g.value EXCEPT !.vals =
                     [i \in 1..Len(nested) |-> nested[i].model]])]]

(***************************************************************************)
(* Relations: the operations                                               *)
(***************************************************************************)
\* rows of the users table; the morph type of the last one is not in morphMap
ParentRows ==
  { [id |-> 1, owner_id |-> 1, imageable_type |-> "posts", imageable_id |-> 1,
     password |-> PasswordVal],
    [id |-> 2, owner_id |-> Null, imageable_type |-> "videos", imageable_id |-> 1,
     password |-> PasswordVal],
    [id |-> 3, owner_id |-> 2, imageable_type |-> "owners", imageable_id |-> 2,
     password |-> PasswordVal],
    [id |-> 4, owner_id |-> 2, imageable_type |-> "tags", imageable_id |-> 1,
     password |-> PasswordVal] }

SeedTables ==
  [users |-> <<>>,
   profiles |-> << [id |-> 1, user_id |-> 1], [id |-> 2, user_id |-> 1],
                   [id |-> 3, user_id |-> 2] >>,
   posts |-> << [id |-> 1, user_id |-> 1, flag |-> 1],
                [id |-> 2, user_id |-> 1, flag |-> 0],
                [id |-> 3, user_id |-> 2, flag |-> 0] >>,
   comments |-> << [id |-> 1, post_id |-> 1, flag |-> 0],
                   [id |-> 2, post_id |-> 2, flag |-> 1],
                   [id |-> 3, post_id |-> 3, flag |-> 1] >>,
   owners |-> << [id |-> 1], [id |-> 2] >>,
   roles |-> << [id |-> 1], [id |-> 2] >>,
   role_user |-> << [user_id |-> 1, role_id |-> 1], [user_id |-> 1, role_id |-> 2],
                    [user_id |-> 2, role_id |-> 1] >>,
   images |-> << [id |-> 1, imageable_type |-> "users", imageable_id |-> 1],
                 [id |-> 2, imageable_type |-> "posts", imageable_id |-> 1],
                 [id |-> 3, imageable_type |-> "users", imageable_id |-> 1] >>,
   videos |-> << [id |-> 1] >>]

\* the tables an installation may still have empty
OptionalTables == {"posts", "role_user"}

\* the arguments of with(): a path, with or without a constraint callback
WithInputs ==
  ({ <<n>> : n \in DOMAIN ClassRelations.users } \X {"none"})
    \cup ({ <<"posts">>, <<"comments">>, <<"posts", "comments">> } \X Constraints)

\* the arguments of load()
LoadInputs ==
  { <<"profile">>, <<"posts">>, <<"owner">>, <<"image">>, <<"images">>,
    <<"posts", "comments">> }

\* connection.insert('users', row)
InsertParent ==
  \E r \in ParentRows :
    /\ Len(tables.users) < MaxParents
    /\ r \notin Range(tables.users)
    /\ tables' = [tables EXCEPT !.users = Append(@, r)]
    /\ models' = <<>>
    /\ queries' = <<>>
    /\ returned' = [op |-> "insert"]
    /\ UNCHANGED <<coreVars, builders, heap>>

\* User.with(path).get() and User.with({ path: cb }).get()
GetWith ==
  \E w \in WithInputs :
    LET r == getWith("users", w[1], w[2])
    IN /\ models' = r.models
       /\ queries' = r.queries
       /\ returned' = [op |-> "get", path |-> w[1], constraint |-> w[2]]
       /\ UNCHANGED <<coreVars, tables, builders, heap>>

\* user.load(path) on the model hydrated from the i-th row of users
LoadRelation ==
  \E i \in 1..Len(tables.users), path \in LoadInputs :
    LET r == load(hydrate(tables.users[i], FALSE), "users", path)
    IN /\ models' = <<r.model>>
       /\ queries' = r.queries
       /\ returned' = [op |-> "load", path |-> path, constraint |-> "none"]
       /\ UNCHANGED <<coreVars, tables, builders, heap>>

InitRelations ==
  /\ driver \in {"sqlite"}
  /\ primaryKey = "id"
  /\ rows = {}
  /\ lastId = 0
  /\ ents = [e \in Ents |-> NoEnt]
  /\ last = NoOp
  /\ InitProcsIdle
  /\ InitMigIdle
  /\ tables \in { [t \in DOMAIN SeedTables |->
                     IF t \in empty THEN <<>> ELSE SeedTables[t]] :
                  empty \in SUBSET OptionalTables }
  /\ models = <<>>
  /\ queries = <<>>
  /\ builders = EmptyFn
  /\ heap = EmptyFn
  /\ returned = NoReturn

NextRelations ==
  \/ InsertParent
  \/ GetWith
  \/ LoadRelation

SpecRelations == InitRelations /\ [][NextRelations]_vars

(***************************************************************************)
(* HasManyThroughRelation: get() and eagerLoad() over growing tables       *)
(***************************************************************************)
MaxThrough == 2
MaxFinals == 2

\* connection.insert('posts', row): the through table
InsertThrough ==
  \E u \in 1..2 :
    /\ Len(tables.posts) < MaxThrough
    /\ tables' = [tables EXCEPT !.posts =
                    Append(@, [id |-> Len(@) + 1, user_id |-> u, flag |-> 0])]
    /\ models' = <<>>
    /\ queries' = <<>>
    /\ returned' = [op |-> "insert"]
    /\ UNCHANGED <<coreVars, builders, heap>>

\* connection.insert('comments', row): the final table
InsertFinal ==
  \E t \in 1..MaxThrough, f \in {0, 1} :
    /\ Len(tables.comments) < MaxFinals
    /\ tables' = [tables EXCEPT !.comments =
                    Append(@, [id |-> Len(@) + 1, post_id |-> t, flag |-> f])]
    /\ models' = <<>>
    /\ queries' = <<>>
    /\ returned' = [op |-> "insert"]
    /\ UNCHANGED <<coreVars, builders, heap>>

\* user.comments().get() on the model hydrated from the i-th row of users
ThroughGetCall ==
  \E i \in 1..Len(tables.users) :
    LET m == hydrate(tables.users[i], FALSE)
        r == HasManyThroughGet(ClassRelations.users.comments, m)
    IN /\ models' = <<m>>
       /\ queries' = r.queries
       /\ returned' = [op |-> "through.get", value |-> r.value.vals]
       /\ UNCHANGED <<coreVars, tables, builders, heap>>

\* users[0].comments().eagerLoad(users, 'comments', constraint) on the models
\* hydrated from the rows of users
ThroughEagerLoadCall ==
  \E constraint \in Constraints :
    LET r == HasManyThroughEagerLoad(ClassRelations.users.comments,
                                     Hydrated(tables.users), "comments",
                                     constraint)
    IN /\ models' = r.models
       /\ queries' = r.queries
       /\ returned' = [op |-> "through.eagerLoad", constraint |-> constraint]
       /\ UNCHANGED <<coreVars, tables, builders, heap>>

\* users 1, 2 and 3 exist, posts and comments are empty
InitThrough ==
  /\ driver \in {"sqlite"}
  /\ primaryKey = "id"
  /\ rows = {}
  /\ lastId = 0
  /\ ents = [e \in Ents |-> NoEnt]
  /\ last = NoOp
  /\ InitProcsIdle
  /\ InitMigIdle
  /\ tables = [SeedTables EXCEPT
                 !.users = << CHOOSE r \in ParentRows : r.id = 1,
                              CHOOSE r \in ParentRows : r.id = 2,
                              CHOOSE r \in ParentRows : r.id = 3 >>,
                 !.posts = <<>>, !.comments = <<>>]
  /\ models = <<>>
  /\ queries = <<>>
  /\ builders = EmptyFn
  /\ heap = EmptyFn
  /\ returned = NoReturn

NextThrough ==
  \/ InsertThrough
  \/ InsertFinal
  \/ ThroughGetCall
  \/ ThroughEagerLoadCall

SpecThrough == InitThrough /\ [][NextThrough]_vars

\* the rows of comments that refer to a row of posts that refers to the
\* parent m, and satisfy the constraint
ThroughFinals(m, constraint) ==
  {f \in Range(tables.comments) :
     /\ \E t \in Range(tables.posts) :
          /\ t.user_id = m.attributes.id
          /\ f.post_id = t.id
     /\ constraint = "flag" => f.flag = 1}

\* the list holds exactly the rows of the set, each once
HoldsExactly(list, set) ==
  /\ Range(Attributes(list)) = set
  /\ Len(list) = Cardinality(set)

\* C26: hasManyThrough get() returns, and eagerLoad assigns to each parent,
\* exactly the finals that refer to a through row of that parent (with an
\* eager-load constraint, those of them that satisfy it), [] when there is
\* none, and no final of another parent's through rows
C26_ThroughFinalsPerParent ==
  /\ returned.op = "through.get" =>
       HoldsExactly(returned.value, ThroughFinals(models[1], "none"))
  /\ returned.op = "through.eagerLoad" =>
       \A i \in 1..Len(models) :
         /\ "comments" \in DOMAIN models[i].relations
         /\ models[i].relations.comments.many
         /\ HoldsExactly(models[i].relations.comments.vals,
                         ThroughFinals(models[i], returned.constraint))

\* two parents were loaded with different finals, the third with none
C26_Witness ==
  /\ returned.op = "through.eagerLoad"
  /\ returned.constraint = "flag"
  /\ Len(models) = 3
  /\ Len(models[1].relations.comments.vals) = 1
  /\ Len(models[2].relations.comments.vals) = 1
  /\ models[1].relations.comments.vals # models[2].relations.comments.vals
  /\ models[3].relations.comments.vals = <<>>

(***************************************************************************)
(* MorphToRelation: get() and eagerLoad() called on the relation           *)
(***************************************************************************)
\* user.imageable().get() on the model hydrated from the i-th row of users
MorphToGetCall ==
  \E i \in 1..Len(tables.users) :
    LET m == hydrate(tables.users[i], FALSE)
        r == MorphToGet(ClassRelations.users.imageable, m)
    IN /\ models' = <<m>>
       /\ queries' = r.queries
       /\ returned' = [op |-> "morphTo.get", value |-> r.value,
                       error |-> r.error]
       /\ UNCHANGED <<coreVars, tables, builders, heap>>

\* users[0].imageable().eagerLoad(users, 'imageable') on the models hydrated
\* from the rows of users
MorphToEagerLoadCall ==
  /\ Len(tables.users) > 0
  /\ LET r == MorphToEagerLoad(ClassRelations.users.imageable,
                               Hydrated(tables.users), "imageable", "none")
     IN /\ models' = r.models
        /\ queries' = r.queries
        /\ returned' = [op |-> "morphTo.eagerLoad", error |-> r.error]
  /\ UNCHANGED <<coreVars, tables, builders, heap>>

InitMorph ==
  /\ driver \in {"sqlite"}
  /\ primaryKey = "id"
  /\ rows = {}
  /\ lastId = 0
  /\ ents = [e \in Ents |-> NoEnt]
  /\ last = NoOp
  /\ InitProcsIdle
  /\ InitMigIdle
  /\ tables = SeedTables
  /\ models = <<>>
  /\ queries = <<>>
  /\ builders = EmptyFn
  /\ heap = EmptyFn
  /\ returned = NoReturn

NextMorph ==
  \/ InsertParent
  \/ MorphToGetCall
  \/ MorphToEagerLoadCall

SpecMorph == InitMorph /\ [][NextMorph]_vars

MorphOps == {"morphTo.get", "morphTo.eagerLoad"}

\* the model holds a morph type and a morph id, and morphMap has no entry for
\* the type
MorphUnresolved(m) ==
  /\ Grouped(ClassRelations.users.imageable, m)
  /\ resolveMorphClass(m.attributes.imageable_type) = ""

\* C22: morphTo get() on a child, and morphTo eagerLoad on a batch holding a
\* child, whose type column has no morphMap entry end with the error
\* MorphUnresolved
C22_MorphUnresolvedSurfaces ==
  ( /\ returned.op \in MorphOps
    /\ \E i \in 1..Len(models) : MorphUnresolved(models[i]) )
  => returned.error = "MorphUnresolved"


(***************************************************************************)
(* Properties of eager loading                                             *)
(***************************************************************************)
\* the SELECTs eagerLoad issued in the last get(): all but the parent SELECT
EagerQueries == Tail(queries)

ThroughKinds == {"hasManyThrough", "hasOneThrough"}

\* C11: for every relation kind and every parent batch, one eagerLoad call
\* issues at most 2 queries: 1 for many-to-many and for has / belongs /
\* morph relations, 2 for the through variants, whatever the batch size.
C11_EagerLoadQueryCount ==
  (returned.op = "get" /\ Len(returned.path) = 1) =>
    LET kind == ClassRelations.users[returned.path[1]].kind
    IN Len(EagerQueries) <= (IF kind \in ThroughKinds THEN 2 ELSE 1)

\* C15: with({'posts.comments': cb}) filters only the leaf relation comments;
\* the intermediate relation posts is loaded without the constraint, so every
\* parent receives all of its posts, each with its comments that satisfy cb.
C15_ConstraintOnLeafOnly ==
  (/\ returned.op = "get"
   /\ returned.path = <<"posts", "comments">>
   /\ returned.constraint = "flag") =>
    \A i \in 1..Len(models) :
      LET posts == RelatedOf(models[i], "posts")
      IN /\ Attributes(posts) =
              SelectSeq(tables.posts,
                        LAMBDA r : r.user_id = models[i].attributes.id)
         /\ \A j \in 1..Len(posts) :
              Attributes(RelatedOf(posts[j], "comments")) =
                SelectSeq(tables.comments,
                          LAMBDA r : /\ r.post_id = posts[j].attributes.id
                                     /\ r.flag = 1)

\* C16: e.load(path) leaves e.relations, at every nesting level, equal to
\* what the eagerLoad pipeline of with(path) assigns on the one-element
\* batch [e].
C16_LoadMirrorsWith ==
  returned.op = "load" =>
    models[1].relations =
      loadRelationPath(<<hydrate(models[1].attributes, FALSE)>>, "users",
                       returned.path, "none").models[1].relations

\* C24: after with('profile').get(), the hasOne relation of every parent is
\* the first row, in the order the query returned them, whose foreign key
\* equals the parent's local key (null when there is none)
C24_HasOnePicksFirst ==
  (returned.op = "get" /\ returned.path = <<"profile">>) =>
    \A i \in 1..Len(models) :
      /\ "profile" \in DOMAIN models[i].relations
      /\ models[i].relations.profile =
           FirstOf(whereEq("profiles", "user_id", models[i].attributes.id))

DirectKinds == {"hasOne", "hasMany", "belongsTo", "belongsToMany"}

\* C25: after the eager load of a hasOne, hasMany, belongsTo or belongsToMany
\* relation, every parent of the batch has relations[name] assigned: one
\* entity or null for hasOne and belongsTo, a list for hasMany and
\* belongsToMany, also when the key of a parent, or of every parent, is null
C25_EveryParentAssigned ==
  ( /\ returned.op = "get"
    /\ Len(returned.path) = 1
    /\ ClassRelations.users[returned.path[1]].kind \in DirectKinds )
  => \A i \in 1..Len(models) :
       /\ returned.path[1] \in DOMAIN models[i].relations
       /\ models[i].relations[returned.path[1]].many =
            (ClassRelations.users[returned.path[1]].kind
               \in {"hasMany", "belongsToMany"})


(***************************************************************************)
(* QueryBuilder: the accumulated query and its arrays                      *)
(***************************************************************************)
MaxChain == 2

\* the array-valued (and object-valued) fields of a QueryBuilder, in the
\* order the constructor creates them
ArrayFields ==
  <<"wheres", "orders", "selectedColumns", "withRelations", "withConstraints",
    "joins", "groupBys", "havings">>

\* the n lowest addresses no live array occupies, in ascending order
FreshAddrs(used, n) ==
  [i \in 1..n |->
     CHOOSE a \in (1..(Cardinality(used) + n)) \ used :
       Cardinality({b \in (1..(Cardinality(used) + n)) \ used : b < a}) = i - 1]

\* a column reference: 'column' (table = "") or 'table.column'
Col(table, column) == [table |-> table, column |-> column]

\* the column list ['*']
Star == Col("", "*")

\* new QueryBuilder(model): the builder and the heap that holds its arrays
NewQueryBuilder(h) ==
  LET addrs == FreshAddrs(DOMAIN h, Len(ArrayFields))
      at(f) == addrs[CHOOSE i \in 1..Len(ArrayFields) : ArrayFields[i] = f]
  IN [builder |->
        [wheres |-> at("wheres"), orders |-> at("orders"),
         limitValue |-> Null, offsetValue |-> Null,
         selectedColumns |-> at("selectedColumns"),
         withRelations |-> at("withRelations"),
         withConstraints |-> at("withConstraints"),
         joins |-> at("joins"), distinctFlag |-> FALSE,
         groupBys |-> at("groupBys"), havings |-> at("havings"),
         showHidden |-> FALSE],
      heap |->
        [a \in DOMAIN h \cup Range(addrs) |->
           IF a \in DOMAIN h THEN h[a]
           ELSE IF a = at("selectedColumns") THEN <<Star>>
           ELSE <<>>]]

\* the arrays no builder refers to any more are dropped
Collect(bs, h) ==
  [a \in {bs[x][ArrayFields[i]] : x \in DOMAIN bs, i \in 1..Len(ArrayFields)}
     |-> h[a]]

\* this.<field>.push(value)
Push(h, q, field, value) ==
  [builder |-> q, heap |-> [h EXCEPT ![q[field]] = Append(@, value)]]

\* select(...columns): the rest parameter is a new array
select(h, q, columns) ==
  LET a == FreshAddrs(DOMAIN h, 1)[1]
  IN [builder |-> [q EXCEPT !.selectedColumns = a],
      heap |-> [x \in DOMAIN h \cup {a} |-> IF x = a THEN columns ELSE h[x]]]

distinct(h, q) == [builder |-> [q EXCEPT !.distinctFlag = TRUE], heap |-> h]

\* where(column, value)
whereBasic(h, q, column, value) ==
  Push(h, q, "wheres",
       [column |-> column, operator |-> "=", value |-> value,
        type |-> "basic", boolean |-> "and"])

\* join(table, first, '=', second)
join(h, q, table, first, second) ==
  Push(h, q, "joins",
       [table |-> table, first |-> first, operator |-> "=",
        second |-> second, type |-> "inner"])

\* throw new Error(...) before the builder is touched
Threw(h, q) == [builder |-> q, heap |-> h, error |-> TRUE]

\* return this
Returns(r) == [builder |-> r.builder, heap |-> r.heap, error |-> FALSE]

\* typeof parent[relationName] === 'function' on a new instance of the users
\* class
IsRelationMethod(relationName) == relationName \in DOMAIN ClassRelations.users

\* whereHas(relationName, callback) for a hasOne / hasMany relation of the
\* users class; callback is "none" or qb => qb.where('flag', 1)
whereHas(h, q, relationName, callback) ==
  IF ~IsRelationMethod(relationName) THEN Threw(h, q)
  ELSE
    LET relation == ClassRelations.users[relationName]
        joined == join(h, q, relation.related,
                       Col(relation.related, relation.foreignKey),
                       Col("users", relation.localKey))
    IN IF callback = "none" THEN Returns(joined)
       ELSE Returns(whereBasic(joined.heap, joined.builder,
                               Col(relation.related, "flag"), 1))

\* has(relationName, operator, count)
has(h, q, relationName, operator, count) ==
  LET joined == whereHas(h, q, relationName, "none")
      key == Col("users", "id")
      grouped ==
        IF \E i \in 1..Len(joined.heap[q.groupBys]) :
             joined.heap[q.groupBys][i] = key
          THEN joined
          ELSE Push(joined.heap, joined.builder, "groupBys", key)
  IN IF joined.error THEN joined
     ELSE Returns(Push(grouped.heap, grouped.builder, "havings",
                       [type |-> "count", column |-> Star,
                        operator |-> operator, value |-> count]))

\* whereDoesntHave(relationName) for a hasOne / hasMany relation of the users
\* class: leftJoin(...) then whereNull(related.id)
whereDoesntHave(h, q, relationName) ==
  IF ~IsRelationMethod(relationName) THEN Threw(h, q)
  ELSE
    LET relation == ClassRelations.users[relationName]
        joined == Push(h, q, "joins",
                       [table |-> relation.related,
                        first |-> Col(relation.related, relation.foreignKey),
                        operator |-> "=",
                        second |-> Col("users", relation.localKey),
                        type |-> "left"])
    IN Returns(Push(joined.heap, joined.builder, "wheres",
                    [column |-> Col(relation.related, "id"), type |-> "null",
                     boolean |-> "and"]))

RECURSIVE withCount(_, _, _)
\* withCount(rels) for hasOne / hasMany relations of the users class: a name
\* that is no method of the class is skipped
withCount(h, q, rels) ==
  IF Len(rels) = 0 THEN Returns([builder |-> q, heap |-> h])
  ELSE IF ~IsRelationMethod(Head(rels)) THEN withCount(h, q, Tail(rels))
  ELSE
    LET relation == ClassRelations.users[Head(rels)]
        sub == [subquery |-> "count", from |-> relation.related,
                first |-> Col(relation.related, relation.foreignKey),
                second |-> Col("users", relation.localKey),
                as |-> Head(rels) \o "_count"]
        pushed == Push(h, q, "selectedColumns", sub)
    IN withCount(pushed.heap, pushed.builder, Tail(rels))

orderBy(h, q, column, direction) ==
  Push(h, q, "orders", [column |-> column, direction |-> direction])

limit(h, q, value) == [builder |-> [q EXCEPT !.limitValue = value], heap |-> h]

offset(h, q, value) == [builder |-> [q EXCEPT !.offsetValue = value], heap |-> h]

groupBy(h, q, column) == Push(h, q, "groupBys", column)

having(h, q, column, operator, value) ==
  Push(h, q, "havings",
       [type |-> "basic", column |-> column, operator |-> operator,
        value |-> value])

\* with(relation)
with(h, q, relation) == Push(h, q, "withRelations", relation)

\* Model.withHidden(): a new builder whose _showHidden is true
withHidden(h) ==
  LET query == NewQueryBuilder(h)
  IN [builder |-> [query.builder EXCEPT !.showHidden = TRUE],
      heap |-> query.heap]

\* clone() whose wheres array is the original's array, not a copy
cloneSharedWheres(h, q) ==
  LET fresh == NewQueryBuilder(h)
      c == fresh.builder
  IN [builder |->
        [c EXCEPT !.wheres = q.wheres,
                  !.limitValue = q.limitValue, !.offsetValue = q.offsetValue,
                  !.distinctFlag = q.distinctFlag],
      heap |->
        [a \in DOMAIN fresh.heap |->
           IF \E i \in 1..Len(ArrayFields) : c[ArrayFields[i]] = a
             THEN h[q[ArrayFields[CHOOSE i \in 1..Len(ArrayFields) :
                                    c[ArrayFields[i]] = a]]]
             ELSE fresh.heap[a]]]

\* clone(): a new builder, a copy of every array, the scalar fields; the
\* constructor's _showHidden = false stays
clone(h, q) ==
  LET fresh == NewQueryBuilder(h)
      c == fresh.builder
  IN [builder |->
        [c EXCEPT !.limitValue = q.limitValue, !.offsetValue = q.offsetValue,
                  !.distinctFlag = q.distinctFlag],
      heap |->
        [a \in DOMAIN fresh.heap |->
           IF \E i \in 1..Len(ArrayFields) : c[ArrayFields[i]] = a
             THEN h[q[ArrayFields[CHOOSE i \in 1..Len(ArrayFields) :
                                    c[ArrayFields[i]] = a]]]
             ELSE fresh.heap[a]]]

\* buildQuery(): the query object handed to the connection
buildQueryOf(h, q) ==
  [columns |-> h[q.selectedColumns], wheres |-> h[q.wheres],
   orders |-> h[q.orders], joins |-> h[q.joins], distinct |-> q.distinctFlag,
   groupBys |-> h[q.groupBys], havings |-> h[q.havings],
   limit |-> q.limitValue, offset |-> q.offsetValue]


(***************************************************************************)
(* DatabaseConnection: the rows a statement built from a query denotes     *)
(***************************************************************************)
TableColumns(t) ==
  IF t = "users" THEN DOMAIN (CHOOSE r \in ParentRows : TRUE)
  ELSE DOMAIN SeedTables[t][1]

\* the row of NULLs a LEFT JOIN pairs an unmatched row with
NullRow(t) == [c \in TableColumns(t) |-> Null]

\* the value of a column reference in a joined row (table -> row)
Resolve(jr, base, ref) ==
  Prop(jr[IF ref.table = "" THEN base ELSE ref.table], ref.column)

\* the column references of the WHERE list the statement cannot resolve:
\* they name a table that is not in its FROM / JOIN list
Unresolved(wheres, from) ==
  {i \in 1..Len(wheres) : wheres[i].column.table \notin ({""} \cup from)}

RECURSIVE JoinAll(_, _, _, _)
\* FROM base <joins> over the tables db: the joined rows, in base order then
\* join order
JoinAll(db, jrs, base, joins) ==
  IF Len(joins) = 0 THEN jrs
  ELSE
    LET j == Head(joins)
        pairs(jr) ==
          LET matches ==
                SelectSeq(db[j.table],
                  LAMBDA r : Resolve(Assign(jr, j.table, r), base, j.first) =
                             Resolve(Assign(jr, j.table, r), base, j.second))
          IN IF Len(matches) = 0 /\ j.type = "left"
               THEN <<Assign(jr, j.table, NullRow(j.table))>>
               ELSE [k \in 1..Len(matches) |-> Assign(jr, j.table, matches[k])]
    IN JoinAll(db, ConcatAll([i \in 1..Len(jrs) |-> pairs(jrs[i])]), base,
               Tail(joins))

\* buildWhereClause on a joined row: the 'basic' predicates with '='
MatchesAll(jr, base, wheres) ==
  \A i \in 1..Len(wheres) :
    /\ wheres[i].type = "basic"
    /\ wheres[i].operator = "="
    /\ Resolve(jr, base, wheres[i].column) = wheres[i].value

Compare(a, operator, b) ==
  CASE operator = "=" -> a = b
    [] operator = ">" -> a > b
    [] operator = ">=" -> a >= b

RECURSIVE GroupBy(_, _, _, _)
\* GROUP BY: one row per distinct key, in order of first appearance, with the
\* size of its group; without GROUP BY every row is its own group
GroupBy(jrs, base, groupBys, seen) ==
  IF Len(groupBys) = 0 THEN [i \in 1..Len(jrs) |-> [jr |-> jrs[i], count |-> 1]]
  ELSE IF Len(jrs) = 0 THEN <<>>
  ELSE
    LET key(jr) == [i \in 1..Len(groupBys) |-> Resolve(jr, base, groupBys[i])]
        k == key(Head(jrs))
    IN IF k \in seen THEN GroupBy(Tail(jrs), base, groupBys, seen)
       ELSE <<[jr |-> Head(jrs),
               count |-> Len(SelectSeq(jrs, LAMBDA x : key(x) = k))]>>
            \o GroupBy(Tail(jrs), base, groupBys, seen \cup {k})

\* HAVING
Having(groups, base, havings) ==
  SelectSeq(groups, LAMBDA g :
    \A i \in 1..Len(havings) :
      IF havings[i].type = "count"
        THEN Compare(g.count, havings[i].operator, havings[i].value)
        ELSE Compare(Resolve(g.jr, base, havings[i].column),
                     havings[i].operator, havings[i].value))

RECURSIVE OrderedBefore(_, _, _, _)
\* ORDER BY: a sorts strictly before b
OrderedBefore(a, b, base, orders) ==
  IF Len(orders) = 0 THEN FALSE
  ELSE LET va == Resolve(a, base, Head(orders).column)
           vb == Resolve(b, base, Head(orders).column)
       IN IF va = vb THEN OrderedBefore(a, b, base, Tail(orders))
          ELSE IF Head(orders).direction = "asc" THEN va < vb ELSE va > vb

RECURSIVE OrderBy(_, _, _)
\* a stable sort of the rows by the ORDER BY list
OrderBy(jrs, base, orders) ==
  IF Len(jrs) = 0 THEN <<>>
  ELSE LET x == jrs[Len(jrs)]
           front == OrderBy(SubSeq(jrs, 1, Len(jrs) - 1), base, orders)
           keep == {i \in 1..Len(front) : ~OrderedBefore(x, front[i], base, orders)}
           n == IF \E i \in 1..Len(front) : i \notin keep
                  THEN (CHOOSE i \in 1..Len(front) :
                          /\ i \notin keep
                          /\ \A k \in 1..(i - 1) : k \in keep) - 1
                  ELSE Len(front)
       IN SubSeq(front, 1, n) \o <<x>> \o SubSeq(front, n + 1, Len(front))

\* LIMIT / OFFSET
Slice(found, limitValue, offsetValue) ==
  LET from == IF offsetValue = Null THEN 1 ELSE offsetValue + 1
      to == IF limitValue = Null \/ from + limitValue - 1 > Len(found)
              THEN Len(found) ELSE from + limitValue - 1
  IN SubSeq(found, from, to)

RECURSIVE MergeAll(_, _)
\* the object the driver returns for SELECT *: the columns of the tables in
\* FROM / JOIN order, a later column of the same name replacing the earlier
MergeAll(jr, from) ==
  IF Len(from) = 0 THEN EmptyFn
  ELSE Merge(MergeAll(jr, SubSeq(from, 1, Len(from) - 1)), jr[from[Len(from)]])

Project(jr, base, from, columns) ==
  IF Star \in Range(columns) THEN MergeAll(jr, from)
  ELSE [c \in {columns[i].column : i \in 1..Len(columns)} |->
          Resolve(jr, base,
                  columns[CHOOSE i \in 1..Len(columns) : columns[i].column = c])]

RECURSIVE Distinct(_, _)
\* SELECT DISTINCT
Distinct(found, seen) ==
  IF Len(found) = 0 THEN <<>>
  ELSE IF Head(found) \in seen THEN Distinct(Tail(found), seen)
  ELSE <<Head(found)>> \o Distinct(Tail(found), seen \cup {Head(found)})

\* the tables of the FROM / JOIN list
FromList(base, joins) == <<base>> \o [i \in 1..Len(joins) |-> joins[i].table]

\* connection.select(table, query) when the tables hold db: buildSelectQuery
\* and its execution; the statement fails when a table is joined twice or a
\* reference names a table that is not joined
SelectRows(db, base, query) ==
  LET from == FromList(base, query.joins)
      failed == \/ Unresolved(query.wheres, Range(from)) # {}
                \/ Cardinality(Range(from)) < Len(from)
      joined == JoinAll(db, [i \in 1..Len(db[base]) |->
                               [t \in {base} |-> db[base][i]]],
                        base, query.joins)
      filtered == SelectSeq(joined, LAMBDA jr : MatchesAll(jr, base, query.wheres))
      groups == Having(GroupBy(filtered, base, query.groupBys, {}), base,
                       query.havings)
      ordered == OrderBy([i \in 1..Len(groups) |-> groups[i].jr], base,
                         query.orders)
      projected == [i \in 1..Len(ordered) |->
                      Project(ordered[i], base, from, query.columns)]
      unique == IF query.distinct THEN Distinct(projected, {}) ELSE projected
  IN IF failed THEN [error |-> TRUE, rows |-> <<>>]
     ELSE [error |-> FALSE, rows |-> Slice(unique, query.limit, query.offset)]

\* connection.select(table, query)
DbSelectQuery(base, query) == SelectRows(tables, base, query)

\* connection.count(table, query): SELECT COUNT(*) FROM table <whereClause>,
\* built from query.wheres alone
DbCount(base, query) ==
  IF Unresolved(query.wheres, {base}) # {} THEN [error |-> TRUE, count |-> 0]
  ELSE [error |-> FALSE,
        count |-> Len(SelectSeq(tables[base],
                        LAMBDA r : MatchesAll([t \in {base} |-> r], base,
                                              query.wheres)))]

\* connection.update(table, data, query): UPDATE table SET ... <whereClause>
DbUpdateQuery(base, data, query) ==
  IF Unresolved(query.wheres, {base}) # {}
    THEN [error |-> TRUE, rows |-> tables[base]]
    ELSE [error |-> FALSE,
          rows |-> [i \in 1..Len(tables[base]) |->
                      IF MatchesAll([t \in {base} |-> tables[base][i]], base,
                                    query.wheres)
                        THEN Merge(tables[base][i], data)
                        ELSE tables[base][i]]]


(***************************************************************************)
(* QueryBuilder: the terminal operations (on the users model class)        *)
(***************************************************************************)
RECURSIVE eagerLoadRelations(_, _, _)
\* QueryBuilder.eagerLoadRelations: loadRelationPath for every entry of
\* withRelations (r1 for the first, r2 for the rest), with its entry of
\* withConstraints
eagerLoadRelations(instances, withRelations, withConstraints) ==
  IF Len(instances) = 0 \/ Len(withRelations) = 0 THEN NoLoad(instances)
  ELSE
    CHOOSE out \in UNION {
      { [queries |-> r1.queries \o r2.queries, models |-> r2.models] :
        r2 \in { eagerLoadRelations(r1.models, Tail(withRelations),
                                    withConstraints) } } :
      r1 \in { loadRelationPath(instances, "users", Head(withRelations),
                 IF Head(withRelations) \in DOMAIN withConstraints
                   THEN withConstraints[Head(withRelations)] ELSE "none") } } :
      TRUE

\* QueryBuilder.get when the tables hold db (the relations of the users class
\* are loaded from other tables than users): res is the result of the
\* SELECT, loaded that of eagerLoadRelations on the hydrated rows
getFrom(db, h, q) ==
  CHOOSE out \in UNION {
    { IF res.error
        THEN [error |-> TRUE, models |-> <<>>, queries |-> <<Q("users", "none")>>]
        ELSE [error |-> FALSE, models |-> loaded.models,
              queries |-> <<Q("users", "none")>> \o loaded.queries] :
      loaded \in { eagerLoadRelations(
                     [i \in 1..Len(res.rows) |-> hydrate(res.rows[i], q.showHidden)],
                     h[q.withRelations], h[q.withConstraints]) } } :
    res \in { SelectRows(db, "users", buildQueryOf(h, q)) } } : TRUE

\* QueryBuilder.get
get(h, q) == getFrom(tables, h, q)

\* QueryBuilder.first when the tables hold db: limit(1), get(),
\* results[0] || null
firstFrom(db, h, q) ==
  CHOOSE out \in
    { [builder |-> limit(h, q, 1).builder, error |-> got.error,
       models |-> IF Len(got.models) = 0 THEN <<>> ELSE <<got.models[1]>>,
       queries |-> got.queries] :
      got \in { getFrom(db, h, limit(h, q, 1).builder) } } : TRUE

\* QueryBuilder.first
first(h, q) == firstFrom(tables, h, q)

\* QueryBuilder.count
count(h, q) == DbCount("users", buildQueryOf(h, q))

\* Math.ceil(a / b) for a >= 0, b >= 1
Ceil(a, b) == (a + b - 1) \div b

\* paginate() whose 'to' is the end of a full page
paginateFullPage(h, q, page, perPage) ==
  LET off == (page - 1) * perPage
      paged == limit(h, offset(h, q, off).builder, perPage).builder
  IN CHOOSE out \in UNION {
       { IF total.error
           THEN [builder |-> q, error |-> TRUE, models |-> <<>>,
                 queries |-> <<Q("users", "none")>>, page |-> EmptyFn]
           ELSE [builder |-> paged, error |-> got.error,
                 models |-> got.models,
                 queries |-> <<Q("users", "none")>> \o got.queries,
                 page |-> [total |-> total.count, per_page |-> perPage,
                           current_page |-> page,
                           last_page |-> Ceil(total.count, perPage),
                           from |-> IF total.count > 0 THEN off + 1 ELSE Null,
                           to |-> off + perPage]] :
         got \in { IF total.error THEN NoLoad(<<>>) ELSE get(h, paged) } } :
       total \in { count(h, q) } } : TRUE

\* QueryBuilder.paginate: count(), then offset(...).limit(perPage).get()
paginate(h, q, page, perPage) ==
  LET off == (page - 1) * perPage
      paged == limit(h, offset(h, q, off).builder, perPage).builder
  IN CHOOSE out \in UNION {
       { IF total.error
           THEN [builder |-> q, error |-> TRUE, models |-> <<>>,
                 queries |-> <<Q("users", "none")>>, page |-> EmptyFn]
           ELSE [builder |-> paged, error |-> got.error,
                 models |-> got.models,
                 queries |-> <<Q("users", "none")>> \o got.queries,
                 page |-> [total |-> total.count, per_page |-> perPage,
                           current_page |-> page,
                           last_page |-> Ceil(total.count, perPage),
                           from |-> IF total.count > 0 THEN off + 1 ELSE Null,
                           to |-> off + Len(got.models)]] :
         got \in { IF total.error THEN NoLoad(<<>>) ELSE get(h, paged) } } :
       total \in { count(h, q) } } : TRUE

\* QueryBuilder.updateAndFetch(attributes): update(), then clone() and first()
\* on the clone, which reads the updated table
updateAndFetch(h, q, attributes) ==
  CHOOSE out \in UNION {
    { IF updated.error
        THEN [error |-> TRUE, tables |-> tables, models |-> <<>>,
              queries |-> <<Q("users", "none")>>]
        ELSE [error |-> fetched.error,
              tables |-> [tables EXCEPT !.users = updated.rows],
              models |-> fetched.models,
              queries |-> <<Q("users", "none")>> \o fetched.queries] :
      fetched \in { firstFrom([tables EXCEPT !.users = updated.rows],
                              clone(h, q).heap, clone(h, q).builder) } } :
    updated \in { DbUpdateQuery("users", attributes, buildQueryOf(h, q)) } } :
    TRUE

(***************************************************************************)
(* QueryBuilder: a program that builds a query, clones it and runs both    *)
(***************************************************************************)
\* b = User.query(), c = b.clone()
BuilderNames == {"b", "c"}

\* the calls the program has made on its builders
Calls == builders.b.chain + (IF "c" \in DOMAIN builders THEN builders.c.chain ELSE 0)

\* the builder call r made on builder x: its IR, the heap, the length of the
\* chain; nothing is fetched
Chained(x, r, op) ==
  /\ Calls < MaxChain
  /\ builders' = [builders EXCEPT ![x] = [q |-> r.builder, chain |-> @.chain + 1]]
  /\ heap' = Collect([y \in DOMAIN builders' |-> builders'[y].q], r.heap)
  /\ returned' = [op |-> op, target |-> x]
  /\ models' = <<>>
  /\ queries' = <<>>
  /\ UNCHANGED <<coreVars, tables>>

BuilderSelect(x) ==
  Chained(x, select(heap, builders[x].q, <<Col("", "id"), Col("", "password")>>),
          "select")

BuilderWhere(x) ==
  Chained(x, whereBasic(heap, builders[x].q, Col("", "id"), 1), "where")

BuilderOrderBy(x) ==
  Chained(x, orderBy(heap, builders[x].q, Col("", "id"), "desc"), "orderBy")

BuilderLimit(x) == Chained(x, limit(heap, builders[x].q, 1), "limit")

BuilderJoin(x) ==
  Chained(x, join(heap, builders[x].q, "posts", Col("posts", "user_id"),
                  Col("users", "id")), "join")

\* x.whereHas('posts') and x.whereHas('posts', qb => qb.where('flag', 1))
BuilderWhereHas(x) ==
  \E callback \in Constraints :
    Chained(x, whereHas(heap, builders[x].q, "posts", callback), "whereHas")

BuilderGroupBy(x) ==
  Chained(x, groupBy(heap, builders[x].q, Col("users", "id")), "groupBy")

BuilderHaving(x) ==
  Chained(x, having(heap, builders[x].q, Col("users", "id"), ">", 0), "having")

BuilderDistinct(x) == Chained(x, distinct(heap, builders[x].q), "distinct")

BuilderWith(x) == Chained(x, with(heap, builders[x].q, <<"posts">>), "with")

\* b = User.withHidden(): the builder b held before is dropped
BuilderWithHidden ==
  Chained("b",
          withHidden(Collect([y \in DOMAIN builders \ {"b"} |-> builders[y].q],
                             heap)),
          "withHidden")

\* c = b.clone()
BuilderClone ==
  /\ "c" \notin DOMAIN builders
  /\ LET r == clone(heap, builders.b.q)
     IN /\ builders' = [x \in BuilderNames |->
                          IF x = "c" THEN [q |-> r.builder, chain |-> 0]
                          ELSE builders[x]]
        /\ heap' = r.heap
  /\ returned' = [op |-> "clone", target |-> "c"]
  /\ models' = <<>>
  /\ queries' = <<>>
  /\ UNCHANGED <<coreVars, tables>>

\* a terminal operation on builder x that left it the IR q, the tables db and
\* the result r
Terminal(x, q, db, r) ==
  /\ Calls < MaxChain
  /\ builders' = [builders EXCEPT ![x] = [q |-> q, chain |-> @.chain + 1]]
  /\ tables' = db
  /\ models' = r.models
  /\ queries' = r.queries
  /\ UNCHANGED <<coreVars, heap>>

\* x.get()
BuilderGet(x) ==
  LET r == get(heap, builders[x].q)
  IN /\ Terminal(x, builders[x].q, tables, r)
     /\ returned' = [op |-> "get", target |-> x, error |-> r.error]

\* x.first()
BuilderFirst(x) ==
  LET r == first(heap, builders[x].q)
  IN /\ Terminal(x, r.builder, tables, r)
     /\ returned' = [op |-> "first", target |-> x, error |-> r.error]

\* x.count()
BuilderCount(x) ==
  LET r == count(heap, builders[x].q)
  IN /\ Terminal(x, builders[x].q, tables,
                 [models |-> <<>>, queries |-> <<Q("users", "none")>>])
     /\ returned' = [op |-> "count", target |-> x, error |-> r.error,
                     count |-> r.count]

\* the arguments of paginate()
MaxPage == 2
MaxPerPage == 2
Pages == 1..MaxPage
PerPages == 1..MaxPerPage

\* x.paginate(page, perPage)
BuilderPaginate(x) ==
  \E page \in Pages, perPage \in PerPages :
    LET r == paginate(heap, builders[x].q, page, perPage)
    IN /\ Terminal(x, r.builder, tables, r)
       /\ returned' = [op |-> "paginate", target |-> x, error |-> r.error,
                       page |-> r.page]

\* x.updateAndFetch({ owner_id: 1 })
BuilderUpdateAndFetch(x) ==
  LET r == updateAndFetch(heap, builders[x].q, [owner_id |-> 1])
  IN /\ Terminal(x, builders[x].q, r.tables, r)
     /\ returned' = [op |-> "updateAndFetch", target |-> x, error |-> r.error]

InitBuilder ==
  /\ driver \in {"sqlite"}
  /\ primaryKey = "id"
  /\ rows = {}
  /\ lastId = 0
  /\ ents = [e \in Ents |-> NoEnt]
  /\ last = NoOp
  /\ InitProcsIdle
  /\ InitMigIdle
  /\ tables = [SeedTables EXCEPT !.users =
                 << CHOOSE r \in ParentRows : r.id = 1,
                    CHOOSE r \in ParentRows : r.id = 2 >>]
  /\ models = <<>>
  /\ queries = <<>>
  /\ builders = [x \in {"b"} |-> [q |-> NewQueryBuilder(EmptyFn).builder,
                                  chain |-> 0]]
  /\ heap = NewQueryBuilder(EmptyFn).heap
  /\ returned = NoReturn

NextBuilder ==
  \/ BuilderClone
  \/ BuilderWithHidden
  \/ \E x \in DOMAIN builders :
       \/ BuilderSelect(x)
       \/ BuilderWhere(x)
       \/ BuilderOrderBy(x)
       \/ BuilderLimit(x)
       \/ BuilderJoin(x)
       \/ BuilderWhereHas(x)
       \/ BuilderGroupBy(x)
       \/ BuilderHaving(x)
       \/ BuilderDistinct(x)
       \/ BuilderWith(x)
       \/ BuilderGet(x)
       \/ BuilderFirst(x)
       \/ BuilderCount(x)
       \/ BuilderPaginate(x)
       \/ BuilderUpdateAndFetch(x)

SpecBuilder == InitBuilder /\ [][NextBuilder]_vars


(***************************************************************************)
(* QueryBuilder: count() and paginate() over the contents of the table     *)
(***************************************************************************)
InitPaginate ==
  /\ driver \in {"sqlite"}
  /\ primaryKey = "id"
  /\ rows = {}
  /\ lastId = 0
  /\ ents = [e \in Ents |-> NoEnt]
  /\ last = NoOp
  /\ InitProcsIdle
  /\ InitMigIdle
  /\ tables = SeedTables
  /\ models = <<>>
  /\ queries = <<>>
  /\ builders = [x \in {"b"} |-> [q |-> NewQueryBuilder(EmptyFn).builder,
                                  chain |-> 0]]
  /\ heap = NewQueryBuilder(EmptyFn).heap
  /\ returned = NoReturn

NextPaginate ==
  \/ InsertParent
  \/ BuilderWhere("b")
  \/ BuilderJoin("b")
  \/ BuilderWhereHas("b")
  \/ BuilderOrderBy("b")
  \/ BuilderLimit("b")
  \/ BuilderCount("b")
  \/ BuilderPaginate("b")

SpecPaginate == InitPaginate /\ [][NextPaginate]_vars

\* C12: count() returns the number of rows the joined and filtered SELECT of
\* the builder yields without its limit and offset
C12_CountPreservesJoins ==
  returned.op = "count" =>
    LET query == buildQueryOf(heap, builders[returned.target].q)
        selected == SelectRows(tables, "users",
                               [query EXCEPT !.limit = Null, !.offset = Null])
    IN ~selected.error =>
         /\ ~returned.error
         /\ returned.count = Len(selected.rows)

\* C19: the result of paginate(page, perPage) holds at most perPage entities,
\* its last_page is the least number of pages of perPage rows that hold total
\* rows, and when it holds entities, from + |data| - 1 = to
C19_PaginateResult ==
  (returned.op = "paginate" /\ ~returned.error) =>
    LET page == returned.page
    IN /\ Len(models) <= page.per_page
       /\ page.last_page * page.per_page >= page.total
       /\ (page.last_page - 1) * page.per_page < page.total
       /\ Len(models) > 0 =>
            /\ page.from # Null
            /\ page.from + Len(models) - 1 = page.to

\* the second page of three users, two to a page, has been fetched
C19_Witness ==
  /\ returned.op = "paginate"
  /\ ~returned.error
  /\ returned.page.current_page = 2
  /\ returned.page.per_page = 2
  /\ returned.page.total = 3
  /\ Len(models) = 1

(***************************************************************************)
(* QueryBuilder: properties of clone()                                     *)
(***************************************************************************)
\* C13: clone() carries the _showHidden flag over: right after c = b.clone()
\* the two builders hold the same flag, and every entity updateAndFetch()
\* returns holds the flag of the builder it was called on, so that its
\* toJSON() shows the hidden attribute it fetched when that flag is set
C13_CloneCarriesShowHidden ==
  /\ returned.op = "clone" => builders.c.q.showHidden = builders.b.q.showHidden
  /\ returned.op = "updateAndFetch" =>
       \A i \in 1..Len(models) :
         /\ models[i].showHidden = builders[returned.target].q.showHidden
         /\ ( /\ builders[returned.target].q.showHidden
              /\ "password" \in DOMAIN models[i].attributes )
            => "password" \in DOMAIN toJSON(models[i])

\* the IR of a builder: its columns, wheres, orders, joins, groupBys, havings,
\* limit, offset, distinct flag and eager-load table
IR(h, q) ==
  [query |-> buildQueryOf(h, q), withRelations |-> h[q.withRelations],
   withConstraints |-> h[q.withConstraints]]

\* C14: the builder c = b.clone() returns has an IR equal to b's, and no later
\* builder call or terminal operation on c changes the IR of b
C14_CloneIndependent ==
  [][ /\ returned'.op = "clone" =>
           IR(heap', builders'.c.q) = IR(heap', builders'.b.q)
      /\ ( /\ "c" \in DOMAIN builders
           /\ returned'.op # "none"
           /\ returned'.target = "c" )
         => IR(heap', builders'.b.q) = IR(heap, builders.b.q) ]_vars

\* c has been given a second where() after it was cloned from a b holding one
C14_Witness ==
  /\ "c" \in DOMAIN builders
  /\ returned.op = "where"
  /\ returned.target = "c"
  /\ Len(heap[builders.b.q.wheres]) = 1
  /\ Len(heap[builders.c.q.wheres]) = 2


(***************************************************************************)
(* QueryBuilder: relational filters given the name of no relation          *)
(***************************************************************************)
\* the names the program passes: two relations of the users class and a name
\* the class does not define
FilterNames == {"posts", "profile", "author"}
FilterLists ==
  {<<a>> : a \in FilterNames} \cup {<<a, c>> : a, c \in FilterNames}

\* the relational filter r called on builder x with the given relation names
Filter(x, r, op, names) ==
  /\ Calls < MaxChain
  /\ builders' = [builders EXCEPT ![x] = [q |-> r.builder, chain |-> @.chain + 1]]
  /\ heap' = Collect([y \in DOMAIN builders' |-> builders'[y].q], r.heap)
  /\ returned' = [op |-> op, target |-> x, error |-> r.error, names |-> names]
  /\ models' = <<>>
  /\ queries' = <<>>
  /\ UNCHANGED <<coreVars, tables>>

FilterWhereHas ==
  \E name \in FilterNames, callback \in Constraints :
    Filter("b", whereHas(heap, builders.b.q, name, callback), "whereHas",
           <<name>>)

FilterHas ==
  \E name \in FilterNames :
    Filter("b", has(heap, builders.b.q, name, ">=", 1), "has", <<name>>)

FilterWhereDoesntHave ==
  \E name \in FilterNames :
    Filter("b", whereDoesntHave(heap, builders.b.q, name), "whereDoesntHave",
           <<name>>)

FilterWithCount ==
  \E rels \in FilterLists :
    Filter("b", withCount(heap, builders.b.q, rels), "withCount", rels)

InitFilters ==
  /\ driver \in {"sqlite"}
  /\ primaryKey = "id"
  /\ rows = {}
  /\ lastId = 0
  /\ ents = [e \in Ents |-> NoEnt]
  /\ last = NoOp
  /\ InitProcsIdle
  /\ InitMigIdle
  /\ tables = SeedTables
  /\ models = <<>>
  /\ queries = <<>>
  /\ builders = [x \in {"b"} |-> [q |-> NewQueryBuilder(EmptyFn).builder,
                                  chain |-> 0]]
  /\ heap = NewQueryBuilder(EmptyFn).heap
  /\ returned = NoReturn

NextFilters ==
  \/ BuilderGroupBy("b")
  \/ FilterWhereHas
  \/ FilterHas
  \/ FilterWhereDoesntHave
  \/ FilterWithCount

SpecFilters == InitFilters /\ [][NextFilters]_vars

FilterOps == {"whereHas", "has", "whereDoesntHave", "withCount"}

\* C21: a relational filter (whereHas, has, whereDoesntHave, withCount) called
\* with names none of which is a relation of the model fails, and the joins,
\* wheres, groupBys, havings and selected columns of the builder stay as they
\* were
C21_UnknownRelationFails ==
  [][ ( /\ returned'.op \in FilterOps
        /\ \A i \in 1..Len(returned'.names) :
             ~IsRelationMethod(returned'.names[i]) )
      => /\ returned'.error
         /\ buildQueryOf(heap', builders'.b.q) = buildQueryOf(heap, builders.b.q)
    ]_vars



(***************************************************************************)
(* BelongsToManyRelation: attach, detach, sync, toggle on the pivot table  *)
(***************************************************************************)
MaxIds == 2
MaxPivot == 3

\* user.roles()
RolesRelation == ClassRelations.users.roles

\* the users the program holds as parent models
PivotParents ==
  {hydrate(r, FALSE) : r \in {x \in ParentRows : x.id \in {1, 2}}}

\* the ids of the roles table
RoleIds == {SeedTables.roles[i].id : i \in 1..Len(SeedTables.roles)}

\* the arrays of role ids a call passes
IdLists == UNION {[1..n -> RoleIds] : n \in 0..MaxIds}

\* the argument of detach(): null, or an array of ids
DetachAll == [null |-> TRUE, ids |-> <<>>]
DetachIds(ids) == [null |-> FALSE, ids |-> ids]

\* BelongsToManyRelation.attach(ids) on the pivot rows: insertMany of one row
\* per element of ids; insertMany returns at once when the array is empty
attach(pivot, rel, parent, ids) ==
  LET parentKeyValue == getAttribute(parent, rel.parentKey)
      pivotData == [i \in 1..Len(ids) |->
                      Assign(Assign(EmptyFn, rel.foreignPivotKey, parentKeyValue),
                             rel.relatedPivotKey, ids[i])]
  IN IF Len(pivotData) = 0 THEN pivot ELSE pivot \o pivotData

\* BelongsToManyRelation.detach(ids = null): DELETE FROM pivot WHERE
\* foreignPivotKey = ? [AND relatedPivotKey IN (...)]
detach(pivot, rel, parent, arg) ==
  LET parentKeyValue == getAttribute(parent, rel.parentKey)
  IN SelectSeq(pivot, LAMBDA r :
       ~( /\ r[rel.foreignPivotKey] = parentKeyValue
          /\ arg.null \/ r[rel.relatedPivotKey] \in Range(arg.ids) ))

\* sync() that attaches without detaching first
syncNoDetach(pivot, rel, parent, ids) == attach(pivot, rel, parent, ids)

\* BelongsToManyRelation.sync(ids): detach(), then attach(ids)
sync(pivot, rel, parent, ids) ==
  attach(detach(pivot, rel, parent, DetachAll), rel, parent, ids)

\* toggle() that never detaches
toggleAttachOnly(pivot, rel, parent, ids) ==
  LET parentKeyValue == getAttribute(parent, rel.parentKey)
      attached == SelectSeq(pivot, LAMBDA r : r[rel.foreignPivotKey] = parentKeyValue)
      attachedIds == [i \in 1..Len(attached) |-> attached[i][rel.relatedPivotKey]]
      toAttach == SelectSeq(ids, LAMBDA id : id \notin Range(attachedIds))
  IN IF Len(toAttach) > 0 THEN attach(pivot, rel, parent, toAttach) ELSE pivot

\* BelongsToManyRelation.toggle(ids): select the attached ids, detach those
\* of ids that are attached, attach those that are not
toggle(pivot, rel, parent, ids) ==
  LET parentKeyValue == getAttribute(parent, rel.parentKey)
      attached == SelectSeq(pivot, LAMBDA r : r[rel.foreignPivotKey] = parentKeyValue)
      attachedIds == [i \in 1..Len(attached) |-> attached[i][rel.relatedPivotKey]]
      toAttach == SelectSeq(ids, LAMBDA id : id \notin Range(attachedIds))
      toDetach == SelectSeq(attachedIds, LAMBDA id : id \in Range(ids))
      detached == IF Len(toDetach) > 0
                    THEN detach(pivot, rel, parent, DetachIds(toDetach))
                    ELSE pivot
  IN IF Len(toAttach) > 0 THEN attach(detached, rel, parent, toAttach)
     ELSE detached

\* a call on parent.roles() that left the pivot table the rows pivot
PivotCall(op, parent, ids, pivot) ==
  /\ Len(pivot) <= MaxPivot
  /\ tables' = [tables EXCEPT ![RolesRelation.pivot] = pivot]
  /\ returned' = [op |-> op, parent |-> parent, ids |-> ids]
  /\ models' = <<>>
  /\ queries' = <<>>
  /\ UNCHANGED <<coreVars, builders, heap>>

Attach ==
  \E parent \in PivotParents, ids \in IdLists :
    PivotCall("attach", parent, ids,
              attach(tables[RolesRelation.pivot], RolesRelation, parent, ids))

\* parent.roles().detach() and parent.roles().detach(ids)
Detach ==
  \E parent \in PivotParents,
     arg \in {DetachAll} \cup {DetachIds(ids) : ids \in IdLists \ {<<>>}} :
    PivotCall("detach", parent, arg.ids,
              detach(tables[RolesRelation.pivot], RolesRelation, parent, arg))

Sync ==
  \E parent \in PivotParents, ids \in IdLists :
    PivotCall("sync", parent, ids,
              sync(tables[RolesRelation.pivot], RolesRelation, parent, ids))

Toggle ==
  \E parent \in PivotParents, ids \in IdLists :
    PivotCall("toggle", parent, ids,
              toggle(tables[RolesRelation.pivot], RolesRelation, parent, ids))

InitPivot ==
  /\ driver \in {"sqlite"}
  /\ primaryKey = "id"
  /\ rows = {}
  /\ lastId = 0
  /\ ents = [e \in Ents |-> NoEnt]
  /\ last = NoOp
  /\ InitProcsIdle
  /\ InitMigIdle
  /\ tables = SeedTables
  /\ models = <<>>
  /\ queries = <<>>
  /\ builders = EmptyFn
  /\ heap = EmptyFn
  /\ returned = NoReturn

NextPivot == Attach \/ Detach \/ Sync \/ Toggle

SpecPivot == InitPivot /\ [][NextPivot]_vars

\* the related ids the pivot rows attach to the parent, in row order
AttachedIds(pivot, parent) ==
  LET attached == SelectSeq(pivot, LAMBDA r :
                    r[RolesRelation.foreignPivotKey] =
                      getAttribute(parent, RolesRelation.parentKey))
  IN [i \in 1..Len(attached) |-> attached[i][RolesRelation.relatedPivotKey]]

\* the pivot rows of the other parents
OtherRows(pivot, parent) ==
  SelectSeq(pivot, LAMBDA r :
    r[RolesRelation.foreignPivotKey] #
      getAttribute(parent, RolesRelation.parentKey))

\* the pivot table
Pivot == tables[RolesRelation.pivot]

\* C17 as stated: after sync(ids) the ids attached to the parent are those of
\* ids, each once, and the rows of the other parents are unchanged
C17_SyncEachOnce ==
  [][returned'.op = "sync" =>
       LET after == AttachedIds(Pivot', returned'.parent)
       IN /\ Range(after) = Range(returned'.ids)
          /\ Cardinality(Range(after)) = Len(after)
          /\ OtherRows(Pivot', returned'.parent) =
               OtherRows(Pivot, returned'.parent)]_vars

\* C17 amended: after sync(ids) the pivot rows of the parent are one row per
\* element of ids, in the order of ids, and the rows of the other parents are
\* unchanged
C17_SyncIsDetachThenAttach ==
  [][returned'.op = "sync" =>
       /\ AttachedIds(Pivot', returned'.parent) = returned'.ids
       /\ OtherRows(Pivot', returned'.parent) =
            OtherRows(Pivot, returned'.parent)]_vars

\* a sync has replaced the roles of a parent while another parent holds one
C17_Witness ==
  /\ returned.op = "sync"
  /\ Len(returned.ids) = 2
  /\ AttachedIds(Pivot, returned.parent) = returned.ids
  /\ Len(OtherRows(Pivot, returned.parent)) > 0

\* the symmetric difference of two sets
SymDiff(a, b) == (a \ b) \cup (b \ a)

\* C18: after toggle(ids) the set of ids attached to the parent is the
\* symmetric difference of the set attached before and ids, a second
\* toggle(ids) gives the set attached before, and the rows of the other
\* parents are unchanged
C18_ToggleSymmetricDifference ==
  [][returned'.op = "toggle" =>
       LET parent == returned'.parent
           before == Range(AttachedIds(Pivot, parent))
           after == Range(AttachedIds(Pivot', parent))
           again == toggle(Pivot', RolesRelation, parent, returned'.ids)
       IN /\ after = SymDiff(before, Range(returned'.ids))
          /\ Range(AttachedIds(again, parent)) = before
          /\ OtherRows(Pivot', parent) = OtherRows(Pivot, parent)
          /\ OtherRows(again, parent) = OtherRows(Pivot, parent)]_vars

\* a toggle has detached one id and attached another
C18_Witness ==
  /\ returned.op = "toggle"
  /\ Len(returned.ids) = 2
  /\ \E id \in Range(returned.ids) : id \in Range(AttachedIds(Pivot, returned.parent))
  /\ \E id \in Range(returned.ids) : id \notin Range(AttachedIds(Pivot, returned.parent))


(***************************************************************************)
(* BelongsToManyRelation: eagerLoad() with withPivot('level')              *)
(***************************************************************************)
Levels == {1, 2}

\* user.roles().withPivot('level')
RolesWithPivot == [RolesRelation EXCEPT !.pivotColumns = <<"level">>]

\* the batches of parent models an eager load is given
PivotBatches ==
  LET p(k) == hydrate(CHOOSE r \in ParentRows : r.id = k, FALSE)
  IN { <<p(1)>>, <<p(2)>>, <<p(1), p(2)>> }

\* connection.insert('role_user', { user_id, role_id, level }); the pivot
\* table has the primary key (user_id, role_id)
InsertPivotRow ==
  \E parent \in PivotParents, id \in RoleIds, level \in Levels :
    LET pivot == tables[RolesRelation.pivot]
        parentKeyValue == getAttribute(parent, RolesRelation.parentKey)
        row == [user_id |-> parentKeyValue, role_id |-> id, level |-> level]
    IN /\ Len(pivot) < MaxPivot
       /\ \A k \in 1..Len(pivot) :
            ~(pivot[k].user_id = parentKeyValue /\ pivot[k].role_id = id)
       /\ tables' = [tables EXCEPT ![RolesRelation.pivot] = Append(@, row)]
       /\ returned' = [op |-> "insert"]
       /\ models' = <<>>
       /\ queries' = <<>>
       /\ UNCHANGED <<coreVars, builders, heap>>

\* user.roles().withPivot('level').eagerLoad(batch, 'roles')
PivotEagerLoadCall ==
  \E batch \in PivotBatches :
    LET r == BelongsToManyEagerLoad(RolesWithPivot, batch, "roles", "none")
    IN /\ models' = r.models
       /\ queries' = r.queries
       /\ returned' = [op |-> "eagerLoad"]
       /\ UNCHANGED <<coreVars, tables, builders, heap>>

InitPivotLoad ==
  /\ driver \in {"sqlite"}
  /\ primaryKey = "id"
  /\ rows = {}
  /\ lastId = 0
  /\ ents = [e \in Ents |-> NoEnt]
  /\ last = NoOp
  /\ InitProcsIdle
  /\ InitMigIdle
  /\ tables = [SeedTables EXCEPT ![RolesRelation.pivot] = <<>>]
  /\ models = <<>>
  /\ queries = <<>>
  /\ builders = EmptyFn
  /\ heap = EmptyFn
  /\ returned = NoReturn

NextPivotLoad == InsertPivotRow \/ PivotEagerLoadCall

SpecPivotLoad == InitPivotLoad /\ [][NextPivotLoad]_vars

\* C30: after eagerLoad over a batch of parents, every related model listed
\* under a parent carries as pivot the level of the pivot row of the pair
\* (parent, related), also when the related model is attached to several
\* parents of the batch
C30_PivotOfThePair ==
  returned.op = "eagerLoad" =>
    \A i \in 1..Len(models) :
      "roles" \in DOMAIN models[i].relations =>
        \A j \in 1..Len(models[i].relations.roles.vals) :
          LET related == models[i].relations.roles.vals[j]
              pivot == tables[RolesRelation.pivot]
          IN \E k \in 1..Len(pivot) :
               /\ pivot[k].user_id = models[i].attributes.id
               /\ pivot[k].role_id = related.attributes.id
               /\ related.pivot = [level |-> pivot[k].level]

(***************************************************************************)
(* DatabaseConnection: the statement text handed to the driver             *)
(***************************************************************************)
MaxWheres == 2
MaxColumns == 2
MaxRecords == 2

\* the drivers the switch statements of DatabaseConnection know
StatementDrivers == Drivers \cup {"postgresql"}

\* a statement is a sequence of pieces: text, a '?' placeholder, a '$k'
\* placeholder
Text(t) == [kind |-> "text", text |-> t, index |-> 0]
Question == [kind |-> "?", text |-> "?", index |-> 0]
Dollar(k) == [kind |-> "$", text |-> "$", index |-> k]

RECURSIVE Join(_, _)
\* pieces.join(separator)
Join(pieces, separator) ==
  IF Len(pieces) = 0 THEN <<>>
  ELSE IF Len(pieces) = 1 THEN pieces[1]
  ELSE pieces[1] \o <<Text(separator)>> \o Join(Tail(pieces), separator)

\* getPlaceholders(count): Array(count).fill('?').join(', ')
getPlaceholders(n) == Join([i \in 1..n |-> <<Question>>], ", ")

\* the where entries a statement is built from: by type, with two values
\* for 'in'
WhereTypes == {"basic", "in", "null"}
WhereTypeLists == UNION {[1..n -> WhereTypes] : n \in 0..MaxWheres}

\* buildWhereClause(wheres): the clause and the number of its parameters
buildWhereClause(wheres) ==
  LET clause(i) ==
        LET boolean == IF i = 1 THEN "WHERE" ELSE "AND"
        IN CASE wheres[i] = "basic" -> <<Text(boolean), Text("c ="), Question>>
             [] wheres[i] = "in" ->
                  <<Text(boolean), Text("c IN (")>> \o getPlaceholders(2)
                    \o <<Text(")")>>
             [] wheres[i] = "null" -> <<Text(boolean), Text("c IS NULL")>>
      params(i) == CASE wheres[i] = "basic" -> 1
                     [] wheres[i] = "in" -> 2
                     [] wheres[i] = "null" -> 0
      RECURSIVE Sum(_)
      Sum(i) == IF i = 0 THEN 0 ELSE params(i) + Sum(i - 1)
  IN [whereClause |-> ConcatAll([i \in 1..Len(wheres) |-> clause(i)]),
      params |-> Sum(Len(wheres))]

RECURSIVE Replace(_, _)
\* sql.replace(/\?/g, () => `$${index++}`)
Replace(sql, index) ==
  IF Len(sql) = 0 THEN <<>>
  ELSE IF Head(sql).kind = "?"
    THEN <<Dollar(index)>> \o Replace(Tail(sql), index + 1)
    ELSE <<Head(sql)>> \o Replace(Tail(sql), index)

\* convertToDriverPlaceholder(sql, driver = this.driver)
convertToDriverPlaceholder(sql, drv) ==
  IF drv = "postgres" \/ drv = "postgresql" THEN Replace(sql, 1) ELSE sql

\* executeRawQuery(sql, params): the text executeMySQLQuery,
\* executePostgreSQLQuery, executeSQLiteQuery hand to the driver
executeRawQuery(sql) ==
  IF driver \in {"postgres", "postgresql"}
    THEN convertToDriverPlaceholder(sql, "postgres")
    ELSE sql

\* select(table, query): buildSelectQuery with a where clause and a having
selectStatement(wheres, havings) ==
  LET built == buildWhereClause(wheres)
      sql == <<Text("SELECT * FROM t")>> \o built.whereClause
             \o (IF havings > 0
                   THEN <<Text("GROUP BY c HAVING")>>
                        \o Join([i \in 1..havings |-> <<Text("c >"), Question>>],
                                " AND ")
                   ELSE <<>>)
  IN [sql |-> executeRawQuery(sql), params |-> built.params + havings]

\* count(table, query)
countStatement(wheres) ==
  LET built == buildWhereClause(wheres)
  IN [sql |-> executeRawQuery(<<Text("SELECT COUNT(*) as count FROM t")>>
                              \o built.whereClause),
      params |-> built.params]

\* insert(table, data) for a record of n columns
insertStatement(n) ==
  LET sql == <<Text("INSERT INTO t (columns) VALUES (")>> \o getPlaceholders(n)
             \o <<Text(")")>>
  IN [sql |-> IF driver \in {"postgres", "postgresql"}
                THEN sql \o <<Text(" RETURNING *")>>
                ELSE sql,
      params |-> n]

\* insertMany(table, data) for m records of n columns
insertManyStatement(m, n) ==
  LET placeholderSet == <<Text("(")>> \o getPlaceholders(n) \o <<Text(")")>>
  IN [sql |-> <<Text("INSERT INTO t (columns) VALUES ")>>
              \o Join([i \in 1..m |-> placeholderSet], ", "),
      params |-> m * n]

\* the statement update, delete, increment and decrement hand over: mysql
\* and postgres through convertToDriverPlaceholder, sqlite as built
converted(sql) ==
  CASE driver = "mysql" -> convertToDriverPlaceholder(sql, driver)
    [] driver \in {"postgres", "postgresql"} ->
         convertToDriverPlaceholder(sql, "postgres")
    [] driver = "sqlite" -> sql

\* update(table, data, query) for a record of n columns
updateStatement(n, wheres) ==
  LET built == buildWhereClause(wheres)
      sql == <<Text("UPDATE t SET")>>
             \o Join([i \in 1..n |-> <<Text("c ="), Question>>], ", ")
             \o built.whereClause
  IN [sql |-> converted(sql), params |-> n + built.params]

\* delete(table, query)
deleteStatement(wheres) ==
  LET built == buildWhereClause(wheres)
  IN [sql |-> converted(<<Text("DELETE FROM t")>> \o built.whereClause),
      params |-> built.params]

\* increment(table, column, query, amount)
incrementStatement(wheres) ==
  LET built == buildWhereClause(wheres)
  IN [sql |-> converted(<<Text("UPDATE t SET c = c +"), Question>>
                        \o built.whereClause),
      params |-> 1 + built.params]

\* decrement(table, column, query, amount)
decrementStatement(wheres) ==
  LET built == buildWhereClause(wheres)
  IN [sql |-> converted(<<Text("UPDATE t SET c = c -"), Question>>
                        \o built.whereClause),
      params |-> 1 + built.params]

\* execute(sql, params) for a raw statement with n placeholders
executeStatement(n) ==
  LET sql == <<Text("UPDATE t SET c = 0 WHERE")>>
             \o Join([i \in 1..n |-> <<Text("c ="), Question>>], " AND ")
  IN [sql |-> IF driver \in {"postgres", "postgresql"}
                THEN convertToDriverPlaceholder(sql, "postgres")
                ELSE sql,
      params |-> n]

\* the driver has been handed the statement
Handed(op, statement) ==
  /\ returned' = [op |-> op, sql |-> statement.sql, params |-> statement.params]
  /\ UNCHANGED <<coreVars, tables, models, queries, builders, heap>>

StmtSelect ==
  \E wheres \in WhereTypeLists, havings \in 0..1 :
    Handed("select", selectStatement(wheres, havings))

StmtCount == \E wheres \in WhereTypeLists : Handed("count", countStatement(wheres))

StmtInsert == \E n \in 1..MaxColumns : Handed("insert", insertStatement(n))

StmtInsertMany ==
  \E m \in 1..MaxRecords, n \in 1..MaxColumns :
    Handed("insertMany", insertManyStatement(m, n))

StmtUpdate ==
  \E n \in 1..MaxColumns, wheres \in WhereTypeLists :
    Handed("update", updateStatement(n, wheres))

StmtDelete == \E wheres \in WhereTypeLists : Handed("delete", deleteStatement(wheres))

StmtIncrement ==
  \E wheres \in WhereTypeLists : Handed("increment", incrementStatement(wheres))

StmtDecrement ==
  \E wheres \in WhereTypeLists : Handed("decrement", decrementStatement(wheres))

StmtExecute == \E n \in 1..MaxColumns : Handed("execute", executeStatement(n))

InitStatements ==
  /\ driver \in StatementDrivers
  /\ primaryKey = "id"
  /\ rows = {}
  /\ lastId = 0
  /\ ents = [e \in Ents |-> NoEnt]
  /\ last = NoOp
  /\ InitProcsIdle
  /\ InitMigIdle
  /\ tables = EmptyFn
  /\ models = <<>>
  /\ queries = <<>>
  /\ builders = EmptyFn
  /\ heap = EmptyFn
  /\ returned = NoReturn

NextStatements ==
  \/ StmtSelect
  \/ StmtCount
  \/ StmtInsert
  \/ StmtInsertMany
  \/ StmtUpdate
  \/ StmtDelete
  \/ StmtIncrement
  \/ StmtDecrement
  \/ StmtExecute

SpecStatements == InitStatements /\ [][NextStatements]_vars

\* the placeholders of a statement, left to right
Placeholders(sql) == SelectSeq(sql, LAMBDA piece : piece.kind # "text")

\* C20: the statement handed to a PostgreSQL driver has $1 .. $n for its n
\* parameters, left to right, and no '?'; the statement handed to MySQL or
\* SQLite has n '?' and no '$k'
C20_PlaceholdersPerDialect ==
  returned.op # "none" =>
    LET found == Placeholders(returned.sql)
    IN /\ Len(found) = returned.params
       /\ \A k \in 1..Len(found) :
            IF driver \in {"postgres", "postgresql"}
              THEN found[k] = Dollar(k)
              ELSE found[k] = Question

(***************************************************************************)
(* DatabaseConnection: connect() and close()                               *)
(***************************************************************************)
MaxHandles == 4

\* the constructor leaves connection = null and pool = null; handles are the
\* pools, clients and databases the driver libraries have created for it
NewDatabaseConnection == [connection |-> Null, pool |-> Null, handles |-> <<>>]

\* handles of the driver libraries that hold resources of the server or file
OpenHandles(db) ==
  {i \in 1..Len(db.handles) : db.handles[i].state = "open"}

\* mysql.createPool(...): this.pool is assigned, this.connection is not
connectMySQL(db) ==
  [db EXCEPT !.handles = Append(@, [kind |-> "pool", state |-> "open"]),
             !.pool = Len(db.handles) + 1]

\* this.connection = new PgClient(...); await this.connection.connect()
connectPostgreSQL(db, ok) ==
  [db EXCEPT !.handles = Append(@, [kind |-> "client",
                                    state |-> IF ok THEN "open" ELSE "failed"]),
             !.connection = Len(db.handles) + 1]

\* this.connection = new sqlite3.Database(file, callback)
connectSQLite(db, ok) ==
  [db EXCEPT !.handles = Append(@, [kind |-> "database",
                                    state |-> IF ok THEN "open" ELSE "failed"]),
             !.connection = Len(db.handles) + 1]

\* does connect() return at its first line
HasConnection(db) == db.connection # Null

\* connect(): ok is whether the driver library could reach the database
connect(db, ok) ==
  IF HasConnection(db)
    THEN [db |-> db, ret |-> "resolved"]
    ELSE CASE driver = "mysql" ->
                [db |-> connectMySQL(db), ret |-> "resolved"]
           [] driver = "postgres" ->
                [db |-> connectPostgreSQL(db, ok),
                 ret |-> IF ok THEN "resolved" ELSE "throw"]
           [] driver = "sqlite" ->
                [db |-> connectSQLite(db, ok),
                 ret |-> IF ok THEN "resolved" ELSE "throw"]

\* close(): ok is whether the first awaited end()/close() of the driver
\* library succeeds; a rejection leaves the fields as they are
close(db, ok) ==
  IF (db.pool # Null \/ (db.connection # Null /\ driver # "mysql")) /\ ~ok
    THEN [db |-> db, ret |-> "throw"]
    ELSE
      LET h1 == IF db.pool # Null
                  THEN [db.handles EXCEPT ![db.pool].state = "closed"]
                  ELSE db.handles
          h2 == IF db.connection # Null /\ driver \in {"postgres", "sqlite"}
                  THEN [h1 EXCEPT ![db.connection].state = "closed"]
                  ELSE h1
      IN [db |-> [connection |-> Null, pool |-> Null, handles |-> h2],
          ret |-> "resolved"]

DbOperations == {"select", "insert", "update", "delete"}

\* await db.connect()
DbConnect ==
  \E ok \in BOOLEAN :
    /\ HasConnection(heap) \/ Len(heap.handles) < MaxHandles
    /\ heap' = connect(heap, ok).db
    /\ last' = [NoOp EXCEPT !.op = "connect", !.ret = connect(heap, ok).ret]
    /\ UNCHANGED <<driver, primaryKey, rows, lastId, ents, procs, initRows,
                   files, migrations, nextMigId, applied, mig, inv, prevInv,
                   tables, models, queries, builders, returned>>

\* select / insert / update / delete: await this.connect() and then the
\* statement on this.pool or this.connection
DbOperation ==
  \E op \in DbOperations, ok \in BOOLEAN :
    /\ HasConnection(heap) \/ Len(heap.handles) < MaxHandles
    /\ heap' = connect(heap, ok).db
    /\ last' = [NoOp EXCEPT !.op = op,
                  !.ret = IF heap'.pool # Null \/
                             (heap'.connection # Null /\
                              heap'.handles[heap'.connection].state = "open")
                            THEN "resolved" ELSE "throw"]
    /\ UNCHANGED <<driver, primaryKey, rows, lastId, ents, procs, initRows,
                   files, migrations, nextMigId, applied, mig, inv, prevInv,
                   tables, models, queries, builders, returned>>

\* await db.close()
DbClose ==
  \E ok \in BOOLEAN :
    /\ heap' = close(heap, ok).db
    /\ last' = [NoOp EXCEPT !.op = "close", !.ret = close(heap, ok).ret]
    /\ UNCHANGED <<driver, primaryKey, rows, lastId, ents, procs, initRows,
                   files, migrations, nextMigId, applied, mig, inv, prevInv,
                   tables, models, queries, builders, returned>>

InitConnection ==
  /\ driver \in Drivers
  /\ primaryKey = "id"
  /\ rows = {}
  /\ lastId = 0
  /\ ents = [e \in Ents |-> NoEnt]
  /\ last = NoOp
  /\ InitProcsIdle
  /\ InitMigIdle
  /\ tables = EmptyFn
  /\ models = <<>>
  /\ queries = <<>>
  /\ builders = EmptyFn
  /\ heap = NewDatabaseConnection
  /\ returned = NoReturn

NextConnection == DbConnect \/ DbOperation \/ DbClose

SpecConnection == InitConnection /\ [][NextConnection]_vars

\* C29: whatever the dialect and the sequence of operations, at most one
\* pool or connection opened by the DatabaseConnection is open at any moment,
\* and after a close() that resolved none is open
C29_AtMostOneOpen ==
  /\ Cardinality(OpenHandles(heap)) <= 1
  /\ (last.op = "close" /\ last.ret = "resolved") => OpenHandles(heap) = {}

====
